---- MODULE Spec2Model ----
(***************************************************************************)
(* Model of the embedding cache of qwen3-semantic-search:                  *)
(*   - the IndexedDB access layer (memory/indexeddb.ts, src/unnamed/       *)
(*     part_000): lazy coalesced open, one promise per store operation;    *)
(*   - the App component (src/src/App.tsx): the startup pass over the      *)
(*     built-in banks, the loadBank effect with its isCancelled flag, and  *)
(*     the deletion of a custom bank.                                      *)
(* An asynchronous function is cut at its awaits: one action per           *)
(* continuation.  A store operation is a row of the table `op`: the call   *)
(* runs openDB synchronously, the row then waits for the open and for its  *)
(* request, and the caller resumes when the row is settled.                *)
(***************************************************************************)
EXTENDS Integers, Sequences, FiniteSets, TLC

VARIABLES
    dbPromise,      \* indexeddb.ts `dbPromise`: 0 = null, r = promise of open request r
    openStatus,     \* openStatus[r]: "pending" | "success" | "error" of indexedDB.open request r
    records,        \* object store 'memories', in ascending primary-key (id) order
    nextId,         \* key generator of 'memories' (autoIncrement)
    customBanks,    \* object store 'custom_banks': name -> content
    op,             \* op[c]: the store operation caller c has in flight
    txq,            \* callers whose transaction is live, in order of creation
    faults,         \* number of failures injected so far (open, request, embedding)
    mounted,        \* the App component is mounted
    isAppLoading,   \* App state isAppLoading
    activeBank,     \* App state activeBank
    availableBanks, \* App state availableBanks
    customBankData, \* App state customBankData: name -> content
    memoryBankEmbeddings, \* App state: <<>> = null, else <<list>>
    bankToDelete,   \* App state bankToDelete: "" = null
    setup,          \* the setup() run of the startup effect
    loads,          \* the loadBank() runs started so far, in order
    del,            \* the handleConfirmDelete() run
    wlog,           \* history: store writes called, <<caller, bank, kind, j>>
    hist,           \* history: facts about finished steps (see the claims)
    modal,          \* CustomBankModal state: bankName, inputText, error, isSaving
    save,           \* the handleSave / handleSaveCustomBank run
    instance,       \* embedding.ts `instance`: 0 = null, l = the instance load l made
    instancePromise, \* embedding.ts `instancePromise`: 0 = null, l = promise of load l
    initStatus,     \* initStatus[l]: "tokenizer" | "model" | "success" | "error" of load l
    pcall,          \* pcall[c]: the getInstance call caller c has made
    gen,            \* the generateEmbedding run
    viz,            \* MemoryVisualizer: its props and its state `nodes`
    search,         \* the search box: query, loading, searchResults, the handleSearch run
    schema          \* database 'Brain' on disk: its version and its object stores

vars == <<dbPromise, openStatus, records, nextId, customBanks, op, txq, faults, mounted,
          isAppLoading, activeBank, availableBanks, customBankData,
          memoryBankEmbeddings, bankToDelete, setup, loads, del, wlog, hist,
          modal, save, instance, instancePromise, initStatus, pcall, gen, viz, search, schema>>

storeVars == <<dbPromise, openStatus, records, nextId, customBanks, op, txq,
              faults>>
appVars == <<mounted, isAppLoading, activeBank, availableBanks, customBankData,
             memoryBankEmbeddings, bankToDelete, setup, loads, del, wlog, hist>>
saveVars == <<modal, save>>
\* the variables the store-only specification and the synchronizer
\* specification leave alone
providerVars == <<instance, instancePromise, initStatus, pcall>>
outsideStore == <<appVars, saveVars, providerVars, gen, viz, search, schema>>
outsideApp == <<saveVars, providerVars, gen, viz, search, schema>>
outsideSave == <<providerVars, gen, viz, search, schema>>

----------------------------------------------------------------------------
(* Bounds *)

\* failures (open error, request error, embedding error) injected per behaviour
MaxFaults == 1
\* indexedDB.open requests issued per behaviour
MaxOpens == 2
\* store operations invoked per behaviour in the store-only specification
NumCallers == 2
\* loadBank runs started per behaviour
MaxLoads == 2

----------------------------------------------------------------------------
(* Data *)

\* Object.keys(memoryBanks); two of the built-in banks are modelled
BuiltInNames == <<"General", "Science">>
\* the custom bank name the user works with
CustomName == "Mine"
\* keys of 'custom_banks' in key order
CustomNamesInOrder == <<CustomName>>
BankNames == {BuiltInNames[i] : i \in DOMAIN BuiltInNames} \cup {CustomName}

SeqToSet(s) == {s[i] : i \in DOMAIN s}
IsBuiltIn_FirstOnly(b) == b = BuiltInNames[1]
IsBuiltIn(b) == b \in SeqToSet(BuiltInNames)

\* memoryBanks[bankName]: the content declared at build time
memoryBanks(b) == IF b = "General" THEN <<"a", "b">> ELSE <<"b">>

\* the embedding the provider returns for a text (opaque, deterministic)
Embedding(t) == <<"vec", t>>

\* a stored record: store.add assigns the id
MemoryRecord(id, b, t) == [id |-> id, bank |-> b, text |-> t, embedding |-> Embedding(t)]

\* the records an earlier session stored: ids 1, 2, ... in the order given
RECURSIVE StoredFrom(_, _)
StoredFrom(pairs, id) ==
    IF pairs = <<>> THEN <<>>
    ELSE <<MemoryRecord(id, pairs[1][1], pairs[1][2])>> \o StoredFrom(Tail(pairs), id + 1)

----------------------------------------------------------------------------
(* The store layer: src/unnamed/part_000 *)

OpKinds == {"addRecord", "getRecord", "getAllRecords", "deleteRecord",
            "clearRecordsByBank", "clearAllRecords", "getRecordsByBank",
            "saveCustomBank", "getCustomBank", "getAllCustomBankNames",
            "deleteCustomBank"}

\* operations written `new Promise(async (resolve, reject) => { await ...; })`:
\* a rejection of the awaited open rejects the executor's own promise, which
\* nobody observes, and never calls the outer reject
ExecutorKinds == OpKinds \ {"deleteRecord"}

NoArg == [bank |-> "", text |-> "", content |-> <<>>, id |-> 0]
IdleOp == [kind |-> "none", arg |-> NoArg, state |-> "idle", promise |-> 0,
           result |-> <<>>]

\* openDB, line 17: the cached promise is reused when there is one
OpenDBReuses_NoCache == FALSE
OpenDBReuses == dbPromise # 0

\* openDB(): the promise returned, and the store state after the call
OpenDBPromise == IF OpenDBReuses THEN dbPromise ELSE Len(openStatus) + 1
OpenDBStatus == IF OpenDBReuses THEN openStatus ELSE Append(openStatus, "pending")
OpenDBEnabled == OpenDBReuses \/ Len(openStatus) < MaxOpens

\* the object store and the mode of the transaction an operation creates
StoreOf(kind) ==
    IF kind \in {"saveCustomBank", "getCustomBank", "getAllCustomBankNames",
                 "deleteCustomBank"}
    THEN "custom_banks" ELSE "memories"
ReadWrite(kind) ==
    kind \in {"addRecord", "deleteRecord", "clearRecordsByBank", "clearAllRecords",
              "saveCustomBank", "deleteCustomBank"}

\* IndexedDB runs a transaction only when no transaction created before it
\* on the same object store is live, unless both are read-only
MayRun(c) ==
    \A i \in DOMAIN txq :
        (\E j \in DOMAIN txq : j > i /\ txq[j] = c) =>
            \/ StoreOf(op[txq[i]].kind) # StoreOf(op[c].kind)
            \/ (~ReadWrite(op[txq[i]].kind) /\ ~ReadWrite(op[c].kind))

\* a store operation is called by caller c: the synchronous part, up to
\* `await openDB()`.  Awaiting a promise that is already fulfilled resumes in
\* the same microtask checkpoint, before any other event: the request is
\* then issued within the calling step.
CallOp(c, kind, arg) ==
    /\ OpenDBEnabled
    /\ op' = [op EXCEPT ![c] =
                 [kind |-> kind, arg |-> arg,
                  state |-> IF OpenDBReuses /\ openStatus[dbPromise] = "success"
                            THEN "request" ELSE "awaitOpen",
                  promise |-> OpenDBPromise, result |-> <<>>]]
    /\ txq' = IF OpenDBReuses /\ openStatus[dbPromise] = "success"
              THEN Append(txq, c) ELSE txq
    /\ dbPromise' = OpenDBPromise
    /\ openStatus' = OpenDBStatus

\* request.onsuccess of indexedDB.open, lines 49-52
OpenSuccess(r) ==
    /\ r \in DOMAIN openStatus
    /\ openStatus[r] = "pending"
    /\ openStatus' = [openStatus EXCEPT ![r] = "success"]
    /\ UNCHANGED <<dbPromise, records, nextId, customBanks, op, txq, faults>>

\* line 56: what request.onerror leaves in dbPromise
DbPromiseAfterError_Kept == dbPromise
DbPromiseAfterError == 0

\* request.onerror of indexedDB.open, lines 54-58
OpenError(r) ==
    /\ r \in DOMAIN openStatus
    /\ openStatus[r] = "pending"
    /\ faults < MaxFaults
    /\ faults' = faults + 1
    /\ openStatus' = [openStatus EXCEPT ![r] = "error"]
    /\ dbPromise' = DbPromiseAfterError
    /\ UNCHANGED <<records, nextId, customBanks, op, txq>>

\* the state of an operation whose `await openDB()` has rejected
StateAfterOpenRejected(kind) ==
    IF kind \in ExecutorKinds THEN "hung" ELSE "rejected"

\* `await openDB()` resumes in caller c: the transaction is created and the
\* request issued, or the rejection is thrown inside the async function
ResumeOpen(c) ==
    /\ op[c].state = "awaitOpen"
    /\ openStatus[op[c].promise] # "pending"
    /\ op' = [op EXCEPT ![c].state =
                 IF openStatus[op[c].promise] = "success" THEN "request"
                 ELSE StateAfterOpenRejected(op[c].kind)]
    /\ txq' = IF openStatus[op[c].promise] = "success" THEN Append(txq, c) ELSE txq
    /\ UNCHANGED <<dbPromise, openStatus, records, nextId, customBanks, faults>>

\* index.getAll(bank): the records of the bank in primary-key order
RecordsOfBank(recs, b) == SelectSeq(recs, LAMBDA r : r.bank = b)

\* store.delete(id)
RecordsAfterDelete(recs, id) == SelectSeq(recs, LAMBDA r : r.id # id)

\* the cursor loop of clearRecordsByBank: every record of the bank is deleted
RecordsAfterClear_FirstOnly(recs, b) ==
    IF RecordsOfBank(recs, b) = <<>> THEN recs
    ELSE RecordsAfterDelete(recs, RecordsOfBank(recs, b)[1].id)
RecordsAfterClear_AllBanks(recs, b) == <<>>
RecordsAfterClear(recs, b) == SelectSeq(recs, LAMBDA r : r.bank # b)

\* store.getAllKeys() of 'custom_banks': the keys in key order
CustomBankKeys(cb) == SelectSeq(CustomNamesInOrder, LAMBDA n : n \in DOMAIN cb)

\* store.put(bank) / store.delete(name) on 'custom_banks'
CustomBanksAfterPut(cb, name, content) ==
    [n \in DOMAIN cb \cup {name} |-> IF n = name THEN content ELSE cb[n]]
CustomBanksAfterDelete(cb, name) == [n \in DOMAIN cb \ {name} |-> cb[n]]

\* the effect of the request of op o on 'memories'
RecordsAfter(o) ==
    CASE o.kind = "addRecord" ->
            Append(records, MemoryRecord(nextId, o.arg.bank, o.arg.text))
      [] o.kind = "clearRecordsByBank" -> RecordsAfterClear(records, o.arg.bank)
      [] o.kind = "clearAllRecords" -> <<>>
      [] o.kind = "deleteRecord" -> RecordsAfterDelete(records, o.arg.id)
      [] OTHER -> records

\* the effect of the request of op o on 'custom_banks'
CustomBanksAfter(o) ==
    CASE o.kind = "saveCustomBank" -> CustomBanksAfterPut(customBanks, o.arg.bank, o.arg.content)
      [] o.kind = "deleteCustomBank" -> CustomBanksAfterDelete(customBanks, o.arg.bank)
      [] OTHER -> customBanks

\* the value the operation resolves with (a sequence in every case)
ResultOf(o) ==
    CASE o.kind = "getRecordsByBank" -> RecordsOfBank(records, o.arg.bank)
      [] o.kind = "getAllRecords" -> records
      [] o.kind = "getRecord" -> SelectSeq(records, LAMBDA r : r.id = o.arg.id)
      [] o.kind = "getCustomBank" ->
            IF o.arg.bank \in DOMAIN customBanks THEN <<customBanks[o.arg.bank]>> ELSE <<>>
      [] o.kind = "getAllCustomBankNames" -> CustomBankKeys(customBanks)
      [] OTHER -> <<>>

\* request.onsuccess of the operation of caller c: its transaction takes effect
RequestSuccess(c) ==
    /\ op[c].state = "request"
    /\ MayRun(c)
    /\ txq' = SelectSeq(txq, LAMBDA d : d # c)
    /\ records' = RecordsAfter(op[c])
    /\ nextId' = IF op[c].kind = "addRecord" THEN nextId + 1 ELSE nextId
    /\ customBanks' = CustomBanksAfter(op[c])
    /\ op' = [op EXCEPT ![c].state = "resolved", ![c].result = ResultOf(op[c])]
    /\ UNCHANGED <<dbPromise, openStatus, faults>>

\* request.onerror of an operation that also drops the connection
RequestError_DropsConnection(c) ==
    /\ op[c].state = "request"
    /\ MayRun(c)
    /\ txq' = SelectSeq(txq, LAMBDA d : d # c)
    /\ faults < MaxFaults
    /\ faults' = faults + 1
    /\ op' = [op EXCEPT ![c].state = "rejected"]
    /\ dbPromise' = 0
    /\ UNCHANGED <<openStatus, records, nextId, customBanks>>

\* request.onerror of the operation of caller c: reject, nothing else
RequestError(c) ==
    /\ op[c].state = "request"
    /\ MayRun(c)
    /\ txq' = SelectSeq(txq, LAMBDA d : d # c)
    /\ faults < MaxFaults
    /\ faults' = faults + 1
    /\ op' = [op EXCEPT ![c].state = "rejected"]
    /\ UNCHANGED <<dbPromise, openStatus, records, nextId, customBanks>>

Settled_NotAwaited(c) == op[c].state # "idle"
Settled(c) == op[c].state \in {"resolved", "rejected"}

\* the store events: they are the same whoever called the operations
StoreEvent ==
    \/ \E r \in DOMAIN openStatus : OpenSuccess(r)
    \/ \E r \in DOMAIN openStatus : OpenError(r)
    \/ \E c \in DOMAIN op : ResumeOpen(c)
    \/ \E c \in DOMAIN op : RequestSuccess(c)
    \/ \E c \in DOMAIN op : RequestError(c)

----------------------------------------------------------------------------
(* The store layer alone, called by NumCallers independent callers *)

Callers == 1..NumCallers

AppOff ==
    /\ mounted = FALSE
    /\ isAppLoading = TRUE
    /\ activeBank = "General"
    /\ availableBanks = BuiltInNames
    /\ customBankData = <<>>
    /\ memoryBankEmbeddings = <<>>
    /\ bankToDelete = ""
    /\ setup = [pc |-> "off"]
    /\ loads = <<>>
    /\ del = [pc |-> "off"]
    /\ wlog = {}
    /\ hist = {}

\* the modal is not rendered
SaveOff ==
    /\ modal = [isOpen |-> FALSE]
    /\ save = [pc |-> "off"]

\* the embedding module is not called
ProviderOff ==
    /\ instance = 0
    /\ instancePromise = 0
    /\ initStatus = <<>>
    /\ pcall = <<>>
    /\ gen = [pc |-> "off"]

\* the visualizer is not rendered
VizOff == viz = [nodes |-> <<>>]

\* no search is made
SearchOff == search = [pc |-> "off"]

\* the schema of the database is left out
SchemaOff == schema = [pc |-> "off"]

\* the argument a caller passes to an operation of the given kind
StoreArgs(kind) ==
    CASE kind \in {"addRecord"} ->
            {[NoArg EXCEPT !.bank = b, !.text = "a"] : b \in {"General", CustomName}}
      [] kind \in {"clearRecordsByBank", "getRecordsByBank"} ->
            {[NoArg EXCEPT !.bank = b] : b \in {"General", CustomName}}
      [] kind \in {"getRecord", "deleteRecord"} -> {[NoArg EXCEPT !.id = 1]}
      [] kind = "saveCustomBank" ->
            {[NoArg EXCEPT !.bank = CustomName, !.content = <<"a">>]}
      [] kind \in {"getCustomBank", "deleteCustomBank"} ->
            {[NoArg EXCEPT !.bank = CustomName]}
      [] OTHER -> {NoArg}

\* what an earlier session may have left in the two object stores: nothing,
\* or a custom bank and records of two banks
StoredRecords == StoredFrom(<< <<CustomName, "a">>, <<"General", "b">>,
                               <<CustomName, "b">> >>, 1)
StoredCustomBanks == [n \in {CustomName} |-> <<"a", "b">>]

StoreInit ==
    /\ dbPromise = 0
    /\ openStatus = <<>>
    /\ \/ records = <<>> /\ customBanks = <<>>
       \/ records = StoredRecords /\ customBanks = StoredCustomBanks
    /\ nextId = Len(records) + 1
    /\ op = [c \in Callers |-> IdleOp]
    /\ txq = <<>>
    /\ faults = 0
    /\ AppOff
    /\ SaveOff
    /\ ProviderOff
    /\ VizOff
    /\ SearchOff
    /\ SchemaOff

\* store operation c is called (each row of `op` is one invocation)
StoreCall(c) ==
    /\ op[c].state = "idle"
    /\ \E kind \in OpKinds : \E arg \in StoreArgs(kind) : CallOp(c, kind, arg)
    /\ UNCHANGED <<records, nextId, customBanks, faults>>

StoreNext ==
    \/ \E c \in Callers : StoreCall(c) /\ UNCHANGED outsideStore
    \/ StoreEvent /\ UNCHANGED outsideStore

SpecStore == StoreInit /\ [][StoreNext]_vars

----------------------------------------------------------------------------
(* Claims about the store layer, checked under SpecStore *)

\* caller c calls its operation in this step
Called(c) == op[c].state = "idle" /\ op'[c].state # "idle"

\* C1: while the first open is pending there is exactly one open request and
\* every operation called so far waits on its promise; an operation whose
\* request is issued runs on the connection of a successful open.
C1_OpenCoalesced ==
    /\ (Len(openStatus) >= 1 /\ openStatus[1] = "pending") =>
          /\ Len(openStatus) = 1
          /\ \A c \in DOMAIN op : op[c].state # "idle" => op[c].promise = 1
    /\ \A c \in DOMAIN op :
          op[c].state \in {"request", "resolved"} =>
              openStatus[op[c].promise] = "success"

\* one operation still waits on the first open's promise, which has been
\* fulfilled, and another one has already run on that connection
C1_Witness ==
    /\ openStatus = <<"success">>
    /\ \E c \in DOMAIN op : op[c].state = "awaitOpen" /\ op[c].promise = 1
    /\ \E c \in DOMAIN op : op[c].state = "resolved" /\ op[c].promise = 1

\* C2: an operation called after an open has failed never receives the failed
\* open: the cache is empty after the failure, the call issues a fresh open
\* request, and a cached promise is never one that has failed.
C2_FailedOpenNotReplayed ==
    [][ /\ \A c \in DOMAIN op : Called(c) =>
              /\ openStatus'[op'[c].promise] # "error"
              /\ (\E r \in DOMAIN openStatus : openStatus[r] = "error")
                    /\ (\A r \in DOMAIN openStatus : openStatus[r] # "success")
                 => \/ Len(openStatus') = Len(openStatus) + 1
                    \/ openStatus[op'[c].promise] = "pending"
        /\ (dbPromise' # 0 => openStatus'[dbPromise'] # "error") ]_vars

\* the first open failed, the second succeeded and an operation ran on it
C2_Witness ==
    /\ openStatus = <<"error", "success">>
    /\ \E c \in DOMAIN op : op[c].state = "resolved" /\ op[c].promise = 2

\* C3: every operation that waited on an open that failed ends rejected, once
\* the failure has reached it.
C3_WaitersRejected ==
    \A c \in DOMAIN op :
        (op[c].state \notin {"idle", "awaitOpen"}
            /\ openStatus[op[c].promise] = "error") => op[c].state = "rejected"

----------------------------------------------------------------------------
(* The App component: src/src/App.tsx *)

SetupId == <<"setup", 0>>
DeleteId == <<"delete", 0>>
LoadId(k) == <<"load", k>>
AppCallers == {SetupId, DeleteId} \cup {LoadId(k) : k \in 1..MaxLoads}

BankArg(b) == [NoArg EXCEPT !.bank = b]
AddArg(b, t) == [NoArg EXCEPT !.bank = b, !.text = t]

\* the caller has taken the outcome of its operation and calls nothing
NoCall(c) ==
    /\ op' = [op EXCEPT ![c] = IdleOp]
    /\ UNCHANGED <<dbPromise, openStatus, txq>>

TextsOf(recs) == [i \in DOMAIN recs |-> recs[i].text]
Embeddings(recs) == [i \in DOMAIN recs |-> recs[i].embedding]

\* history: the fetched records are exactly the content, entry by entry
Matches(cached, content) == TextsOf(cached) = content

\* history: the fetched records have the count of the content and differ from
\* it at exactly one position
OneDiff(cached, content) ==
    /\ Len(cached) = Len(content)
    /\ Cardinality({i \in DOMAIN content : cached[i].text # content[i]}) = 1

\* line 302: cachedRecords.length !== bankData.length ||
\*           !cachedRecords.every((r, i) => r.text === bankData[i])
needsGeneration_CountOnly(cached, bankData) == Len(cached) # Len(bankData)
needsGeneration_Always(cached, bankData) == TRUE
needsGeneration(cached, bankData) ==
    \/ Len(cached) # Len(bankData)
    \/ ~(\A i \in DOMAIN cached : cached[i].text = bankData[i])

\* line 309: the isCancelled test before each addRecord of the startup pass
SetupCancelledBeforeAdd_Unchecked(s) == FALSE
SetupCancelledBeforeAdd(s) == s.cancelled

\* the bank the startup loop is at
SetupBank(s) == BuiltInNames[s.i]

\* the outcome of the startup pass for the bank it is at
WithStatus(s, st) == [s EXCEPT !.status[SetupBank(s)] = st]

\* lines 289-300: the head of the loop at index i, up to the fetch; after the
\* last bank, lines 320-321: the custom bank names are listed
SetupLoop(s, i) ==
    IF i > Len(BuiltInNames)
    THEN /\ CallOp(SetupId, "getAllCustomBankNames", NoArg)
         /\ setup' = [s EXCEPT !.pc = "listCustom", !.i = i, !.j = 0]
    ELSE IF s.cancelled
    THEN /\ NoCall(SetupId)
         /\ setup' = [s EXCEPT !.pc = "returned", !.i = i, !.j = 0]
    ELSE /\ CallOp(SetupId, "getRecordsByBank", BankArg(BuiltInNames[i]))
         /\ setup' = [s EXCEPT !.pc = "fetch", !.i = i, !.j = 0]

\* lines 308-310: the insert loop at index j
SetupInsert(s, j) ==
    IF j > Len(memoryBanks(SetupBank(s)))
    THEN /\ SetupLoop(WithStatus(s, "ok"), s.i + 1)
         /\ UNCHANGED wlog
    ELSE IF SetupCancelledBeforeAdd(s)
    THEN /\ NoCall(SetupId)
         /\ setup' = [WithStatus(s, "cancelled") EXCEPT !.pc = "returned"]
         /\ UNCHANGED wlog
    ELSE /\ CallOp(SetupId, "addRecord", AddArg(SetupBank(s), memoryBanks(SetupBank(s))[j]))
         /\ setup' = [s EXCEPT !.pc = "add", !.j = j]
         /\ wlog' = wlog \cup {<<SetupId, SetupBank(s), "add", j>>}

\* line 257-281: preloadEmbeddingModel has settled (it never throws)
SetupPreloaded ==
    /\ setup.pc = "preload"
    /\ IF setup.cancelled
       THEN NoCall(SetupId) /\ setup' = [setup EXCEPT !.pc = "returned"]
       ELSE SetupLoop(setup, 1)
    /\ UNCHANGED <<records, nextId, customBanks, faults, mounted, isAppLoading,
                   activeBank, availableBanks, customBankData,
                   memoryBankEmbeddings, bankToDelete, loads, del, wlog, hist>>

\* lines 300-304: getRecordsByBank has settled
SetupFetched ==
    /\ setup.pc = "fetch"
    /\ Settled(SetupId)
    /\ IF op[SetupId].state = "rejected"
       THEN SetupLoop(WithStatus(setup, "failed"), setup.i + 1) /\ UNCHANGED wlog
       ELSE IF setup.cancelled
       THEN /\ NoCall(SetupId)
            /\ setup' = [WithStatus(setup, "cancelled") EXCEPT !.pc = "returned"]
            /\ UNCHANGED wlog
       ELSE LET cached == op[SetupId].result
                bankData == memoryBanks(SetupBank(setup))
                s == [setup EXCEPT
                        !.fresh = IF Matches(cached, bankData)
                                  THEN @ \cup {SetupBank(setup)} ELSE @,
                        !.oneDiff = IF OneDiff(cached, bankData)
                                    THEN @ \cup {SetupBank(setup)} ELSE @]
            IN  IF needsGeneration(cached, bankData)
                THEN /\ CallOp(SetupId, "clearRecordsByBank", BankArg(SetupBank(setup)))
                     /\ setup' = [s EXCEPT !.pc = "clear"]
                     /\ wlog' = wlog \cup {<<SetupId, SetupBank(setup), "clear", 0>>}
                ELSE SetupLoop(WithStatus(s, "ok"), setup.i + 1) /\ UNCHANGED wlog
    /\ UNCHANGED <<records, nextId, customBanks, faults, mounted, isAppLoading,
                   activeBank, availableBanks, customBankData,
                   memoryBankEmbeddings, bankToDelete, loads, del, hist>>

\* lines 304-305: clearRecordsByBank has settled; generateEmbedding is called
SetupCleared ==
    /\ setup.pc = "clear"
    /\ Settled(SetupId)
    /\ IF op[SetupId].state = "rejected"
       THEN SetupLoop(WithStatus(setup, "failed"), setup.i + 1) /\ UNCHANGED hist
       ELSE /\ NoCall(SetupId)
            /\ setup' = [setup EXCEPT !.pc = "embed"]
            /\ hist' = [hist EXCEPT !.cleared = @ \cup {<<SetupId, SetupBank(setup)>>}]
    /\ UNCHANGED <<records, nextId, customBanks, faults, mounted, isAppLoading,
                   activeBank, availableBanks, customBankData,
                   memoryBankEmbeddings, bankToDelete, loads, del, wlog>>

\* lines 305-310: generateEmbedding(bankData) has resolved
SetupEmbedded ==
    /\ setup.pc = "embed"
    /\ IF setup.cancelled
       THEN /\ NoCall(SetupId)
            /\ setup' = [WithStatus(setup, "cancelled") EXCEPT !.pc = "returned"]
            /\ UNCHANGED wlog
       ELSE SetupInsert(setup, 1)
    /\ UNCHANGED <<records, nextId, customBanks, faults, mounted, isAppLoading,
                   activeBank, availableBanks, customBankData,
                   memoryBankEmbeddings, bankToDelete, loads, del, hist>>

\* lines 305, 314-316: generateEmbedding(bankData) has thrown
SetupEmbedFailed ==
    /\ setup.pc = "embed"
    /\ faults < MaxFaults
    /\ faults' = faults + 1
    /\ SetupLoop(WithStatus(setup, "failed"), setup.i + 1)
    /\ UNCHANGED <<records, nextId, customBanks, mounted, isAppLoading,
                   activeBank, availableBanks, customBankData,
                   memoryBankEmbeddings, bankToDelete, loads, del, wlog, hist>>

\* lines 308-316: addRecord has settled
SetupAdded ==
    /\ setup.pc = "add"
    /\ Settled(SetupId)
    /\ IF op[SetupId].state = "rejected"
       THEN SetupLoop(WithStatus(setup, "failed"), setup.i + 1) /\ UNCHANGED wlog
       ELSE SetupInsert(setup, setup.j + 1)
    /\ UNCHANGED <<records, nextId, customBanks, faults, mounted, isAppLoading,
                   activeBank, availableBanks, customBankData,
                   memoryBankEmbeddings, bankToDelete, loads, del, hist>>

\* line 365 (and line 195): the content of a bank as a render sees it
CurrentBankContent(b, cbd) ==
    IF IsBuiltIn(b) THEN memoryBanks(b)
    ELSE IF b \in DOMAIN cbd THEN cbd[b] ELSE <<>>

\* the cleanup of the loadBank effect: the latest run is cancelled
CancelCurrent(ls) ==
    IF ls = <<>> THEN ls ELSE [ls EXCEPT ![Len(ls)].cancelled = TRUE]

\* lines 351-362: a loadBank run starts for bank b, with the customBankData of
\* the render that scheduled it, up to its first await
StartLoad(ls, b, cbd) ==
    LET k == Len(ls) + 1
        needBank == ~IsBuiltIn(b) /\ b \notin DOMAIN cbd
        row == [bank |-> b, content |-> CurrentBankContent(b, cbd),
                pc |-> IF needBank THEN "getBank" ELSE "fetch", j |-> 0,
                cancelled |-> FALSE, stale |-> "unknown", plan |-> "none"]
    IN  /\ k <= MaxLoads
        /\ loads' = Append(ls, row)
        /\ IF needBank
           THEN CallOp(LoadId(k), "getCustomBank", BankArg(b))
           ELSE CallOp(LoadId(k), "getRecordsByBank", BankArg(b))

\* a state setter called by a run: it does nothing once the App is unmounted
SetState(new, old) == IF mounted THEN new ELSE old

\* lines 334-338: the end of setup, up to the 300 ms timer
SetupFinish(s) ==
    /\ NoCall(SetupId)
    /\ setup' = [s EXCEPT !.pc = IF s.cancelled THEN "returned" ELSE "timer"]

\* lines 321-326: getAllCustomBankNames has settled (no try around it)
SetupListed ==
    /\ setup.pc = "listCustom"
    /\ Settled(SetupId)
    /\ IF op[SetupId].state = "rejected"
       THEN /\ NoCall(SetupId)
            /\ setup' = [setup EXCEPT !.pc = "failed"]
            /\ UNCHANGED availableBanks
       ELSE IF Len(op[SetupId].result) > 0
       THEN /\ availableBanks' = SetState(BuiltInNames \o op[SetupId].result, availableBanks)
            /\ CallOp(SetupId, "getCustomBank", BankArg(op[SetupId].result[1]))
            /\ setup' = [setup EXCEPT !.pc = "getCustom", !.j = 1,
                                      !.names = op[SetupId].result]
       ELSE SetupFinish(setup) /\ UNCHANGED availableBanks
    /\ UNCHANGED <<records, nextId, customBanks, faults, mounted, isAppLoading,
                   activeBank, customBankData, memoryBankEmbeddings,
                   bankToDelete, loads, del, wlog, hist>>

\* lines 325-334: getCustomBank(name) has settled
SetupGotCustom ==
    /\ setup.pc = "getCustom"
    /\ Settled(SetupId)
    /\ IF op[SetupId].state = "rejected"
       THEN /\ NoCall(SetupId)
            /\ setup' = [setup EXCEPT !.pc = "failed"]
            /\ UNCHANGED customBankData
       ELSE LET name == setup.names[setup.j]
                data == IF op[SetupId].result = <<>> THEN setup.customData
                        ELSE CustomBanksAfterPut(setup.customData, name,
                                                 op[SetupId].result[1])
                s == [setup EXCEPT !.customData = data]
            IN  IF setup.j < Len(setup.names)
                THEN /\ CallOp(SetupId, "getCustomBank", BankArg(setup.names[setup.j + 1]))
                     /\ setup' = [s EXCEPT !.j = setup.j + 1]
                     /\ UNCHANGED customBankData
                ELSE /\ customBankData' = SetState(data, customBankData)
                     /\ SetupFinish(s)
    /\ UNCHANGED <<records, nextId, customBanks, faults, mounted, isAppLoading,
                   activeBank, availableBanks, memoryBankEmbeddings,
                   bankToDelete, loads, del, wlog, hist>>

\* lines 338-340 and 347-362: the timer fires, setIsAppLoading(false), and the
\* loadBank effect runs for the active bank
SetupTimer ==
    /\ setup.pc = "timer"
    /\ setup' = [setup EXCEPT !.pc = "done"]
    /\ IF mounted
       THEN /\ isAppLoading' = FALSE
            /\ StartLoad(loads, activeBank, customBankData)
       ELSE UNCHANGED <<isAppLoading, loads, op, dbPromise, openStatus, txq>>
    /\ UNCHANGED <<records, nextId, customBanks, faults, mounted, activeBank,
                   availableBanks, customBankData, memoryBankEmbeddings,
                   bankToDelete, del, wlog, hist>>

\* lines 363, 377: the isCancelled test before setMemoryBankEmbeddings
LoadCancelledBeforePublish_Unchecked(l) == FALSE
LoadCancelledBeforePublish(l) == l.cancelled

\* line 373: the isCancelled test before each addRecord of loadBank
LoadCancelledBeforeAdd_Unchecked(l) == FALSE
LoadCancelledBeforeAdd(l) == l.cancelled

\* line 367: the staleness test of loadBank
LoadStale_Never(cached, content) == FALSE
LoadStale_Inverted(cached, content) == Len(cached) = Len(content)
LoadStale(cached, content) == Len(cached) # Len(content)

\* lines 378, 381: setMemoryBankEmbeddings(cachedRecords.map(r => r.embedding))
Publish(k, recs) ==
    /\ memoryBankEmbeddings' = SetState(<<Embeddings(recs)>>, memoryBankEmbeddings)
    /\ hist' = [hist EXCEPT !.published = @ \cup {k}]

\* a run of loadBank ends: returned, failed (unhandled rejection) or done
LoadEnds(k, pc) ==
    /\ NoCall(LoadId(k))
    /\ loads' = [loads EXCEPT ![k].pc = pc]

\* lines 356-362: getCustomBank(activeBank) has settled
LoadGotBank(k) ==
    /\ loads[k].pc = "getBank"
    /\ Settled(LoadId(k))
    /\ IF op[LoadId(k)].state = "rejected"
       THEN LoadEnds(k, "failed") /\ UNCHANGED customBankData
       ELSE /\ customBankData' =
                 IF op[LoadId(k)].result = <<>> THEN customBankData
                 ELSE SetState(CustomBanksAfterPut(customBankData, loads[k].bank,
                                                   op[LoadId(k)].result[1]),
                               customBankData)
            /\ CallOp(LoadId(k), "getRecordsByBank", BankArg(loads[k].bank))
            /\ loads' = [loads EXCEPT ![k].pc = "fetch"]
    /\ UNCHANGED <<records, nextId, customBanks, faults, mounted, isAppLoading,
                   activeBank, availableBanks, memoryBankEmbeddings,
                   bankToDelete, setup, del, wlog, hist>>

\* lines 362-368 and 380-381: getRecordsByBank(activeBank) has settled
LoadFetched(k) ==
    /\ loads[k].pc = "fetch"
    /\ Settled(LoadId(k))
    /\ IF op[LoadId(k)].state = "rejected"
       THEN LoadEnds(k, "failed") /\ UNCHANGED <<memoryBankEmbeddings, hist, wlog>>
       ELSE IF LoadCancelledBeforePublish(loads[k])
       THEN LoadEnds(k, "returned") /\ UNCHANGED <<memoryBankEmbeddings, hist, wlog>>
       ELSE LET cached == op[LoadId(k)].result
                stale == IF Matches(cached, loads[k].content)
                         THEN "fresh" ELSE "stale"
            IN  IF LoadStale(cached, loads[k].content)
                THEN /\ CallOp(LoadId(k), "clearRecordsByBank", BankArg(loads[k].bank))
                     /\ loads' = [loads EXCEPT ![k].pc = "clear", ![k].stale = stale,
                                               ![k].plan = "regenerate"]
                     /\ wlog' = wlog \cup {<<LoadId(k), loads[k].bank, "clear", 0>>}
                     /\ UNCHANGED <<memoryBankEmbeddings, hist>>
                ELSE /\ NoCall(LoadId(k))
                     /\ loads' = [loads EXCEPT ![k].pc = "done", ![k].stale = stale,
                                               ![k].plan = "reuse"]
                     /\ Publish(k, cached)
                     /\ UNCHANGED wlog
    /\ UNCHANGED <<records, nextId, customBanks, faults, mounted, isAppLoading,
                   activeBank, availableBanks, customBankData, bankToDelete,
                   setup, del>>

\* the first await of a loadBank run has settled.  The getCustomBank of lines
\* 355-360 is awaited only by a run whose bank is a custom bank missing from
\* customBankData; every render that makes a custom bank active has its
\* content there, so that no run takes that branch.
LoadFirstAwait(k) ==
    IF loads[k].pc = "getBank" THEN LoadGotBank(k) ELSE LoadFetched(k)

\* lines 368-369: clearRecordsByBank has settled; generateEmbedding is called
LoadCleared(k) ==
    /\ loads[k].pc = "clear"
    /\ Settled(LoadId(k))
    /\ LoadEnds(k, IF op[LoadId(k)].state = "rejected" THEN "failed" ELSE "embed")
    /\ hist' = IF op[LoadId(k)].state = "rejected" THEN hist
               ELSE [hist EXCEPT !.cleared = @ \cup {<<LoadId(k), loads[k].bank>>}]
    /\ UNCHANGED <<records, nextId, customBanks, faults, mounted, isAppLoading,
                   activeBank, availableBanks, customBankData,
                   memoryBankEmbeddings, bankToDelete, setup, del, wlog>>

\* lines 372-376: the insert loop at index j, then the second fetch
LoadInsert(k, j) ==
    IF j > Len(loads[k].content)
    THEN /\ CallOp(LoadId(k), "getRecordsByBank", BankArg(loads[k].bank))
         /\ loads' = [loads EXCEPT ![k].pc = "refetch"]
         /\ UNCHANGED wlog
    ELSE IF LoadCancelledBeforeAdd(loads[k])
    THEN LoadEnds(k, "returned") /\ UNCHANGED wlog
    ELSE /\ CallOp(LoadId(k), "addRecord", AddArg(loads[k].bank, loads[k].content[j]))
         /\ loads' = [loads EXCEPT ![k].pc = "add", ![k].j = j]
         /\ wlog' = wlog \cup {<<LoadId(k), loads[k].bank, "add", j>>}

\* lines 369-374: generateEmbedding(currentBankContent) has resolved; an empty
\* list fails the test of line 371 and nothing more is done
LoadEmbedded(k) ==
    /\ loads[k].pc = "embed"
    /\ IF loads[k].cancelled THEN LoadEnds(k, "returned") /\ UNCHANGED wlog
       ELSE IF loads[k].content = <<>> THEN LoadEnds(k, "done") /\ UNCHANGED wlog
       ELSE LoadInsert(k, 1)
    /\ UNCHANGED <<records, nextId, customBanks, faults, mounted, isAppLoading,
                   activeBank, availableBanks, customBankData,
                   memoryBankEmbeddings, bankToDelete, setup, del, hist>>

\* line 369: generateEmbedding(currentBankContent) has thrown
LoadEmbedFailed(k) ==
    /\ loads[k].pc = "embed"
    /\ faults < MaxFaults
    /\ faults' = faults + 1
    /\ LoadEnds(k, "failed")
    /\ UNCHANGED <<records, nextId, customBanks, mounted, isAppLoading,
                   activeBank, availableBanks, customBankData,
                   memoryBankEmbeddings, bankToDelete, setup, del, wlog, hist>>

\* lines 372-376: addRecord has settled
LoadAdded(k) ==
    /\ loads[k].pc = "add"
    /\ Settled(LoadId(k))
    /\ IF op[LoadId(k)].state = "rejected"
       THEN LoadEnds(k, "failed") /\ UNCHANGED wlog
       ELSE LoadInsert(k, loads[k].j + 1)
    /\ UNCHANGED <<records, nextId, customBanks, faults, mounted, isAppLoading,
                   activeBank, availableBanks, customBankData,
                   memoryBankEmbeddings, bankToDelete, setup, del, hist>>

\* lines 376-378: the second getRecordsByBank has settled
LoadRefetched(k) ==
    /\ loads[k].pc = "refetch"
    /\ Settled(LoadId(k))
    /\ IF op[LoadId(k)].state = "rejected"
       THEN LoadEnds(k, "failed") /\ UNCHANGED <<memoryBankEmbeddings, hist>>
       ELSE IF LoadCancelledBeforePublish(loads[k])
       THEN LoadEnds(k, "returned") /\ UNCHANGED <<memoryBankEmbeddings, hist>>
       ELSE LoadEnds(k, "done") /\ Publish(k, op[LoadId(k)].result)
    /\ UNCHANGED <<records, nextId, customBanks, faults, mounted, isAppLoading,
                   activeBank, availableBanks, customBankData, bankToDelete,
                   setup, del, wlog>>

\* line 541: the footer (bank selector, modals) is rendered
FooterShown == mounted /\ ~isAppLoading /\ memoryBankEmbeddings # <<>>

\* line 621: a bank button is clicked; the effect of lines 347-386 reruns
SwitchBank(name) ==
    /\ FooterShown
    /\ name \in SeqToSet(availableBanks)
    /\ name # activeBank
    /\ activeBank' = name
    /\ StartLoad(CancelCurrent(loads), name, customBankData)
    /\ UNCHANGED <<records, nextId, customBanks, faults, mounted, isAppLoading,
                   availableBanks, customBankData, memoryBankEmbeddings,
                   bankToDelete, setup, del, wlog, hist>>

\* lines 462-465 and 624-633: the delete mark of a custom bank is clicked
requestDeleteCustomBank(name) ==
    /\ FooterShown
    /\ name \in SeqToSet(availableBanks)
    /\ ~IsBuiltIn(name)
    /\ bankToDelete = ""
    /\ bankToDelete' = name
    /\ UNCHANGED <<storeVars, mounted, isAppLoading, activeBank, availableBanks,
                   customBankData, memoryBankEmbeddings, setup, loads, del,
                   wlog, hist>>

IdleDelete == [pc |-> "idle", bank |-> "", active |-> ""]

\* lines 467-471: Delete is confirmed; the handler keeps the bankToDelete and
\* the activeBank of the render it was created in
handleConfirmDelete ==
    /\ FooterShown
    /\ bankToDelete # ""
    /\ del.pc = "idle"
    /\ del' = [pc |-> "meta", bank |-> bankToDelete, active |-> activeBank]
    /\ CallOp(DeleteId, "deleteCustomBank", BankArg(bankToDelete))
    /\ UNCHANGED <<records, nextId, customBanks, faults, mounted, isAppLoading,
                   activeBank, availableBanks, customBankData,
                   memoryBankEmbeddings, bankToDelete, setup, loads, wlog, hist>>

\* lines 492-497: the catch of handleConfirmDelete
DeleteCaught ==
    /\ NoCall(DeleteId)
    /\ del' = IdleDelete
    /\ bankToDelete' = SetState("", bankToDelete)

\* lines 471-472: dbDeleteCustomBank has settled
DeleteMetaDone ==
    /\ del.pc = "meta"
    /\ Settled(DeleteId)
    /\ IF op[DeleteId].state = "rejected"
       THEN DeleteCaught
       ELSE /\ CallOp(DeleteId, "clearRecordsByBank", BankArg(del.bank))
            /\ del' = [del EXCEPT !.pc = "records"]
            /\ UNCHANGED bankToDelete
    /\ UNCHANGED <<records, nextId, customBanks, faults, mounted, isAppLoading,
                   activeBank, availableBanks, customBankData,
                   memoryBankEmbeddings, setup, loads, wlog, hist>>

\* lines 472-477: clearRecordsByBank has settled; the 400 ms timer is set
DeleteRecordsDone ==
    /\ del.pc = "records"
    /\ Settled(DeleteId)
    /\ IF op[DeleteId].state = "rejected"
       THEN DeleteCaught /\ UNCHANGED hist
       ELSE /\ NoCall(DeleteId)
            /\ del' = [del EXCEPT !.pc = "timer"]
            /\ hist' = [hist EXCEPT !.deleted = @ \cup {del.bank}]
            /\ UNCHANGED bankToDelete
    /\ UNCHANGED <<records, nextId, customBanks, faults, mounted, isAppLoading,
                   activeBank, availableBanks, customBankData,
                   memoryBankEmbeddings, setup, loads, wlog>>

\* lines 477-490: the timer of handleConfirmDelete fires
DeleteTimer ==
    /\ del.pc = "timer"
    /\ del' = IdleDelete
    /\ IF mounted
       THEN LET active == IF del.active = del.bank THEN "General" ELSE activeBank
                data == CustomBanksAfterDelete(customBankData, del.bank)
            IN  /\ activeBank' = active
                /\ availableBanks' = SelectSeq(availableBanks, LAMBDA b : b # del.bank)
                /\ customBankData' = data
                /\ bankToDelete' = ""
                /\ IF active # activeBank
                   THEN StartLoad(CancelCurrent(loads), active, data)
                   ELSE UNCHANGED <<loads, op, dbPromise, openStatus, txq>>
       ELSE UNCHANGED <<activeBank, availableBanks, customBankData, bankToDelete,
                        loads, op, dbPromise, openStatus, txq>>
    /\ UNCHANGED <<records, nextId, customBanks, faults, mounted, isAppLoading,
                   memoryBankEmbeddings, setup, wlog, hist>>

\* lines 344, 385: the App is unmounted; the cleanups set the isCancelled flags
Unmount ==
    /\ mounted
    /\ mounted' = FALSE
    /\ setup' = [setup EXCEPT !.cancelled = TRUE]
    /\ loads' = CancelCurrent(loads)
    /\ UNCHANGED <<storeVars, isAppLoading, activeBank, availableBanks,
                   customBankData, memoryBankEmbeddings, bankToDelete, del,
                   wlog, hist>>

\* what an earlier session left for each bank: the texts of its records
StoredGeneral == {<<>>, <<"a", "b">>, <<"a", "x">>, <<"a">>}
StoredScience == {<<"b">>}
\* ... and for the custom bank: none, or its content with all or part of its records
StoredCustom == {[content |-> <<>>, texts |-> <<>>],
                 [content |-> <<"a", "b">>, texts |-> <<"a", "b">>],
                 [content |-> <<"a", "b">>, texts |-> <<"a">>]}

Tagged(b, texts) == [i \in DOMAIN texts |-> <<b, texts[i]>>]

AppInit ==
    /\ dbPromise = 0
    /\ openStatus = <<>>
    /\ \E g \in StoredGeneral, sc \in StoredScience, c \in StoredCustom :
          /\ records = StoredFrom(Tagged("General", g) \o Tagged("Science", sc)
                                    \o Tagged(CustomName, c.texts), 1)
          /\ customBanks = IF c.content = <<>> THEN <<>>
                           ELSE [n \in {CustomName} |-> c.content]
    /\ nextId = Len(records) + 1
    /\ op = [c \in AppCallers |-> IdleOp]
    /\ txq = <<>>
    /\ faults = 0
    /\ mounted = TRUE
    /\ isAppLoading = TRUE
    /\ activeBank = "General"
    /\ availableBanks = BuiltInNames
    /\ customBankData = <<>>
    /\ memoryBankEmbeddings = <<>>
    /\ bankToDelete = ""
    /\ setup = [pc |-> "preload", i |-> 1, j |-> 0, cancelled |-> FALSE,
                names |-> <<>>, customData |-> <<>>, fresh |-> {}, oneDiff |-> {},
                status |-> [b \in SeqToSet(BuiltInNames) |-> "none"]]
    /\ loads = <<>>
    /\ del = IdleDelete
    /\ wlog = {}
    /\ hist = [published |-> {}, deleted |-> {}, cleared |-> {},
               nextId0 |-> nextId]
    /\ SaveOff
    /\ ProviderOff
    /\ VizOff
    /\ SearchOff
    /\ SchemaOff

AppNext ==
    \/ SetupPreloaded /\ UNCHANGED outsideApp
    \/ SetupFetched /\ UNCHANGED outsideApp
    \/ SetupCleared /\ UNCHANGED outsideApp
    \/ SetupEmbedded /\ UNCHANGED outsideApp
    \/ SetupEmbedFailed /\ UNCHANGED outsideApp
    \/ SetupAdded /\ UNCHANGED outsideApp
    \/ SetupListed /\ UNCHANGED outsideApp
    \/ SetupGotCustom /\ UNCHANGED outsideApp
    \/ SetupTimer /\ UNCHANGED outsideApp
    \/ \E k \in DOMAIN loads : LoadFirstAwait(k) /\ UNCHANGED outsideApp
    \/ \E k \in DOMAIN loads : LoadCleared(k) /\ UNCHANGED outsideApp
    \/ \E k \in DOMAIN loads : LoadEmbedded(k) /\ UNCHANGED outsideApp
    \/ \E k \in DOMAIN loads : LoadEmbedFailed(k) /\ UNCHANGED outsideApp
    \/ \E k \in DOMAIN loads : LoadAdded(k) /\ UNCHANGED outsideApp
    \/ \E k \in DOMAIN loads : LoadRefetched(k) /\ UNCHANGED outsideApp
    \/ \E name \in BankNames : SwitchBank(name) /\ UNCHANGED outsideApp
    \/ \E name \in BankNames : requestDeleteCustomBank(name) /\ UNCHANGED outsideApp
    \/ handleConfirmDelete /\ UNCHANGED outsideApp
    \/ DeleteMetaDone /\ UNCHANGED outsideApp
    \/ DeleteRecordsDone /\ UNCHANGED outsideApp
    \/ DeleteTimer /\ UNCHANGED outsideApp
    \/ Unmount /\ UNCHANGED outsideApp
    \/ StoreEvent /\ UNCHANGED <<appVars, outsideApp>>

Spec == AppInit /\ [][AppNext]_vars

----------------------------------------------------------------------------
(* Claims about the synchronizer, checked under Spec *)

\* the store writes a run has called
WritesOf(c) == {w \in wlog : w[1] = c}

\* the isCancelled flag of the run that is caller c
RunCancelled(c) == IF c = SetupId THEN setup.cancelled ELSE loads[c[2]].cancelled

\* C4: once the startup pass has finished a bank without failure or
\* cancellation, the records of the bank are its content: as many records as
\* entries, and the text of each record is the entry at its position.
C4_StartupSynced ==
    \A b \in SeqToSet(BuiltInNames) :
        setup.status[b] = "ok" =>
            TextsOf(RecordsOfBank(records, b)) = memoryBanks(b)

\* the startup pass has finished General after regenerating it
C4_Witness ==
    /\ setup.status["General"] = "ok"
    /\ <<SetupId, "General", "add", Len(memoryBanks("General"))>> \in wlog

\* C5: a run whose fetch returned records that match the content (same count,
\* same text at every position) calls no store write for the bank, in the
\* startup pass and in loadBank.
C5_NoWriteWhenFresh ==
    /\ \A b \in setup.fresh : \A w \in WritesOf(SetupId) : w[2] # b
    /\ \A k \in DOMAIN loads : loads[k].stale = "fresh" => WritesOf(LoadId(k)) = {}

\* the startup pass found a bank fresh and a loadBank run has published the
\* cached records of a fresh bank
C5_Witness ==
    /\ setup.fresh # {}
    /\ \E k \in DOMAIN loads :
          loads[k].stale = "fresh" /\ loads[k].pc = "done" /\ k \in hist.published

\* C6: when the startup pass finds n cached records of which exactly one has a
\* text other than its entry, no cached record of the bank is left once the
\* delete has completed, and when the pass has finished the bank it holds n
\* records, all of them inserted by this pass.
C6_FullInvalidation ==
    \A b \in setup.oneDiff :
        LET rs == RecordsOfBank(records, b)
        IN  /\ (setup.pc \in {"embed", "add"} /\ SetupBank(setup) = b) =>
                    \A i \in DOMAIN rs : rs[i].id >= hist.nextId0
            /\ (\E w \in WritesOf(SetupId) : w[2] = b /\ w[3] = "add") =>
                    <<SetupId, b, "clear", 0>> \in wlog
            /\ setup.status[b] = "ok" =>
                    /\ Len(rs) = Len(memoryBanks(b))
                    /\ \A i \in DOMAIN rs : rs[i].id >= hist.nextId0
                    /\ \A i \in DOMAIN rs : rs[i].text = memoryBanks(b)[i]

\* the startup pass has finished a bank that had one changed entry
C6_Witness ==
    \E b \in setup.oneDiff :
        /\ setup.status[b] = "ok"
        /\ Len(memoryBanks(b)) >= 2
        /\ Len(RecordsOfBank(records, b)) = Len(memoryBanks(b))

\* C7: a loadBank run that fetched records differing from the content, in
\* count or in the text at some position, deletes and re-embeds the bank.
C7_LoadStaleByText ==
    \A k \in DOMAIN loads : loads[k].stale = "stale" => loads[k].plan = "regenerate"

\* C8: a run whose isCancelled flag is set calls no store write.
C8_NoWriteAfterCancel ==
    [][\A w \in wlog' \ wlog : ~RunCancelled(w[1])]_vars

\* a loadBank run was cancelled after its delete and returned before any insert
C8_Witness ==
    \E k \in DOMAIN loads :
        /\ loads[k].cancelled
        /\ loads[k].pc = "returned"
        /\ WritesOf(LoadId(k)) = {<<LoadId(k), loads[k].bank, "clear", 0>>}

C10_DeletedStaysEmpty ==
    \A b \in hist.deleted :
        /\ b \notin DOMAIN customBanks
        /\ RecordsOfBank(records, b) = <<>>

----------------------------------------------------------------------------
(* Progress of the startup: the event loop runs every continuation that is *)
(* ready, timers fire, and a pending IndexedDB request completes.  Nothing *)
(* forces a failure, a click or the unmount.                               *)

StoreProgress ==
    \/ \E r \in DOMAIN openStatus : OpenSuccess(r)
    \/ \E c \in DOMAIN op : ResumeOpen(c)
    \/ \E c \in DOMAIN op : RequestSuccess(c)

AppProgress ==
    \/ /\ \/ SetupPreloaded \/ SetupFetched \/ SetupCleared \/ SetupEmbedded
          \/ SetupAdded \/ SetupListed \/ SetupGotCustom \/ SetupTimer
          \/ \E k \in DOMAIN loads :
                \/ LoadFirstAwait(k) \/ LoadCleared(k) \/ LoadEmbedded(k)
                \/ LoadAdded(k) \/ LoadRefetched(k)
          \/ DeleteMetaDone \/ DeleteRecordsDone \/ DeleteTimer
       /\ UNCHANGED outsideApp
    \/ StoreProgress /\ UNCHANGED <<appVars, outsideApp>>

SpecLive == AppInit /\ [][AppNext]_vars /\ WF_vars(AppProgress)

\* the operation the startup pass awaits has failed: its promise is rejected,
\* or its open was rejected and the promise is left pending
SetupOpFailed == op[SetupId].state \in {"rejected", "hung"}

\* C12: when an operation fails while the startup pass synchronizes the bank
\* at index i, the pass goes on to the banks after i (unless it is cancelled).
C12_FailureSkipsBank ==
    \A i \in DOMAIN BuiltInNames :
        (setup.pc \in {"fetch", "clear", "add"} /\ setup.i = i /\ SetupOpFailed)
            ~> (setup.i > i \/ setup.cancelled)

\* C13: the startup eventually leaves the loading state, unless it is
\* cancelled.
C13_StartupFinishes == <>(~isAppLoading \/ setup.cancelled)

----------------------------------------------------------------------------
(* Creating a custom bank: CustomBankModal.handleSave and                  *)
(* handleSaveCustomBank, src/src/App.tsx                                   *)

\* lines typed into the textarea per behaviour
MaxLines == 21
\* line 47: `lines.length > 20`
MaxFacts == 20

SaveId == <<"save", 0>>
SaveCallers == {SaveId} \cup {LoadId(k) : k \in 1..MaxLoads}

\* A text is a sequence of characters.
\* String.prototype.split('\n'): the lines of a text
RECURSIVE Split(_)
Split(text) ==
    IF \A i \in DOMAIN text : text[i] # "\n" THEN <<text>>
    ELSE LET p == CHOOSE i \in DOMAIN text :
                      text[i] = "\n" /\ \A j \in 1..(i - 1) : text[j] # "\n"
         IN  <<SubSeq(text, 1, p - 1)>> \o Split(SubSeq(text, p + 1, Len(text)))

IsSpace(ch) == ch \in {" ", "\t", "\r", "\n"}

\* String.prototype.trim()
RECURSIVE Trim(_)
Trim(line) ==
    IF line = <<>> THEN line
    ELSE IF IsSpace(Head(line)) THEN Trim(Tail(line))
    ELSE IF IsSpace(line[Len(line)]) THEN Trim(SubSeq(line, 1, Len(line) - 1))
    ELSE line

\* line 42: inputText.split('\n').filter(line => line.trim() !== '')
NonEmptyLines(text) == SelectSeq(Split(text), LAMBDA l : Trim(l) # <<>>)

\* line 436: text.split('\n').map(line => line.trim()).filter(Boolean)
NewBankContent(text) ==
    SelectSeq([i \in DOMAIN Split(text) |-> Trim(Split(text)[i])],
              LAMBDA l : l # <<>>)

\* bank names are strings; trim() and toLowerCase() on the names that occur
TrimName(s) ==
    CASE s = "  " -> ""
      [] s = " Mine " -> "Mine"
      [] OTHER -> s
LowerCase(s) ==
    CASE s = "Mine" -> "mine"
      [] s = "Other" -> "other"
      [] s = "General" -> "general"
      [] s = "GENERAL" -> "general"
      [] s = "Science" -> "science"
      [] OTHER -> s

\* line 547: existingNames={availableBanks.map(b => b.toLowerCase())}
existingNames_CaseSensitive(banks) == {banks[i] : i \in DOMAIN banks}
existingNames(banks) == {LowerCase(banks[i]) : i \in DOMAIN banks}

\* line 47: the limit on the number of facts
TooManyFacts_Unchecked(lines) == FALSE
TooManyFacts(lines) == Len(lines) > MaxFacts

\* lines 32-50: the error handleSave sets, "" when the input is valid
ValidationError(bankName, inputText, existing) ==
    IF TrimName(bankName) = "" THEN "Bank name cannot be empty."
    ELSE IF LowerCase(TrimName(bankName)) \in existing
    THEN "This name is already taken. Please choose another."
    ELSE IF Len(NonEmptyLines(inputText)) = 0 THEN "Bank content cannot be empty."
    ELSE IF TooManyFacts(NonEmptyLines(inputText))
    THEN "You can add a maximum of 20 facts."
    ELSE ""

IdleSave == [pc |-> "idle", name |-> "", text |-> <<>>, content |-> <<>>, j |-> 0,
             embedCalled |-> FALSE]

\* lines 67-73: handleClose
ClosedModal == [isOpen |-> FALSE, bankName |-> "", inputText |-> <<>>, error |-> "",
                isSaving |-> FALSE]

\* lines 31-65: Save Bank is clicked (one click per behaviour); a valid input
\* sets the 50 ms timer
handleSave ==
    /\ FooterShown
    /\ modal.isOpen /\ ~modal.isSaving
    /\ save.pc = "idle"
    /\ LET err == ValidationError(modal.bankName, modal.inputText,
                                  existingNames(availableBanks))
       IN  IF err # ""
           THEN /\ modal' = [modal EXCEPT !.error = err]
                /\ save' = [save EXCEPT !.pc = "rejected"]
           ELSE /\ modal' = [modal EXCEPT !.isSaving = TRUE, !.error = ""]
                /\ save' = [save EXCEPT !.pc = "timer",
                                        !.name = TrimName(modal.bankName),
                                        !.text = modal.inputText]
    /\ UNCHANGED <<storeVars, appVars>>

\* lines 55-57 and 435-440: the timer fires, onSave(trimmedName, inputText) is
\* called and runs up to `await generateEmbedding(newBankContent, {})`
SaveTimer ==
    /\ save.pc = "timer"
    /\ IF NewBankContent(save.text) = <<>>
       THEN /\ save' = [save EXCEPT !.pc = "done"]
            /\ modal' = ClosedModal
       ELSE /\ save' = [save EXCEPT !.pc = "embed",
                                    !.content = NewBankContent(save.text),
                                    !.embedCalled = TRUE]
            /\ UNCHANGED modal
    /\ UNCHANGED <<storeVars, appVars>>

\* lines 456-458 and 59-63: the catch of handleSaveCustomBank rethrows, the
\* catch of the timer callback shows the error
SaveCaught ==
    /\ NoCall(SaveId)
    /\ save' = [save EXCEPT !.pc = "failed"]
    /\ modal' = [modal EXCEPT !.isSaving = FALSE,
                    !.error = "Failed to save and embed the bank. Please try again."]

\* lines 440-441: generateEmbedding has resolved; saveCustomBank is called
SaveEmbedded ==
    /\ save.pc = "embed"
    /\ CallOp(SaveId, "saveCustomBank",
              [NoArg EXCEPT !.bank = save.name, !.content = save.content])
    /\ save' = [save EXCEPT !.pc = "put"]
    /\ wlog' = wlog \cup {<<SaveId, save.name, "save", 0>>}
    /\ UNCHANGED <<records, nextId, customBanks, faults, mounted, isAppLoading,
                   activeBank, availableBanks, customBankData,
                   memoryBankEmbeddings, bankToDelete, setup, loads, del, hist,
                   modal>>

\* line 440: generateEmbedding has thrown and nothing is shown: the modal
\* closes as after a save
SaveEmbedFailed_Swallowed ==
    /\ save.pc = "embed"
    /\ faults < MaxFaults
    /\ faults' = faults + 1
    /\ NoCall(SaveId)
    /\ save' = [save EXCEPT !.pc = "failed"]
    /\ modal' = ClosedModal
    /\ UNCHANGED <<records, nextId, customBanks, appVars>>

\* line 440: generateEmbedding has thrown
SaveEmbedFailed ==
    /\ save.pc = "embed"
    /\ faults < MaxFaults
    /\ faults' = faults + 1
    /\ SaveCaught
    /\ UNCHANGED <<records, nextId, customBanks, appVars>>

\* lines 444-454 and 58: the insert loop at index j; after the last record the
\* new bank is published and made active (the loadBank effect reruns), and
\* the modal closes
SaveInsert(j) ==
    IF j > Len(save.content)
    THEN /\ save' = [save EXCEPT !.pc = "done"]
         /\ modal' = ClosedModal
         /\ UNCHANGED wlog
         /\ IF mounted
            THEN LET data == CustomBanksAfterPut(customBankData, save.name,
                                                 save.content)
                 IN  /\ availableBanks' = Append(availableBanks, save.name)
                     /\ customBankData' = data
                     /\ activeBank' = save.name
                     /\ IF save.name # activeBank
                        THEN StartLoad(CancelCurrent(loads), save.name, data)
                        ELSE NoCall(SaveId) /\ UNCHANGED loads
            ELSE /\ NoCall(SaveId)
                 /\ UNCHANGED <<availableBanks, customBankData, activeBank, loads>>
    ELSE /\ CallOp(SaveId, "addRecord", AddArg(save.name, save.content[j]))
         /\ save' = [save EXCEPT !.pc = "add", !.j = j]
         /\ wlog' = wlog \cup {<<SaveId, save.name, "add", j>>}
         /\ UNCHANGED <<modal, availableBanks, customBankData, activeBank, loads>>

\* lines 441-445: saveCustomBank has settled
SavePut ==
    /\ save.pc = "put"
    /\ Settled(SaveId)
    /\ IF op[SaveId].state = "rejected"
       THEN /\ SaveCaught
            /\ UNCHANGED <<wlog, availableBanks, customBankData, activeBank, loads>>
       ELSE SaveInsert(1)
    /\ UNCHANGED <<records, nextId, customBanks, faults, mounted, isAppLoading,
                   memoryBankEmbeddings, bankToDelete, setup, del, hist>>

\* lines 444-446: addRecord has settled
SaveAdded ==
    /\ save.pc = "add"
    /\ Settled(SaveId)
    /\ IF op[SaveId].state = "rejected"
       THEN /\ SaveCaught
            /\ UNCHANGED <<wlog, availableBanks, customBankData, activeBank, loads>>
       ELSE SaveInsert(save.j + 1)
    /\ UNCHANGED <<records, nextId, customBanks, faults, mounted, isAppLoading,
                   memoryBankEmbeddings, bankToDelete, setup, del, hist>>

\* the facts the user types: line i holds one letter, with blanks around it
\* on some lines
Letters == <<"a", "b", "c", "d", "e", "f", "g", "h", "i", "j", "k", "l", "m",
             "n", "o", "p", "q", "r", "s", "t", "u", "v", "w", "x", "y", "z">>
FactLine(i) ==
    IF i % 3 = 0 THEN <<" ", Letters[i]>>
    ELSE IF i % 3 = 1 THEN <<Letters[i], " ">>
    ELSE <<Letters[i]>>

RECURSIVE FactLines(_)
FactLines(n) ==
    IF n = 0 THEN <<>>
    ELSE IF n = 1 THEN FactLine(1)
    ELSE FactLines(n - 1) \o <<"\n">> \o FactLine(n)

\* the texts typed: n facts, alone or followed by an empty or a blank line
TextInputs ==
    {FactLines(n) : n \in 0..MaxLines}
        \cup {FactLines(n) \o <<"\n">> : n \in 0..MaxLines}
        \cup {FactLines(n) \o <<"\n", " ">> : n \in 0..MaxLines}
\* the names typed
NameInputs == {"", "  ", "Mine", " Mine ", "GENERAL"}

\* the App after a startup that found the built-in banks cached and no custom
\* bank: General is active and loaded, the modal is open and filled in
SaveInit ==
    /\ dbPromise = 1
    /\ openStatus = <<"success">>
    /\ records = StoredFrom(Tagged("General", memoryBanks("General"))
                              \o Tagged("Science", memoryBanks("Science")), 1)
    /\ customBanks = <<>>
    /\ nextId = Len(records) + 1
    /\ op = [c \in SaveCallers |-> IdleOp]
    /\ txq = <<>>
    /\ faults = 0
    /\ mounted = TRUE
    /\ isAppLoading = FALSE
    /\ activeBank = "General"
    /\ availableBanks = BuiltInNames
    /\ customBankData = <<>>
    /\ memoryBankEmbeddings = <<Embeddings(RecordsOfBank(records, "General"))>>
    /\ bankToDelete = ""
    /\ setup = [pc |-> "done", i |-> Len(BuiltInNames) + 1, j |-> 0,
                cancelled |-> FALSE, names |-> <<>>, customData |-> <<>>,
                fresh |-> SeqToSet(BuiltInNames), oneDiff |-> {},
                status |-> [b \in SeqToSet(BuiltInNames) |-> "ok"]]
    /\ loads = <<[bank |-> "General", content |-> memoryBanks("General"),
                  pc |-> "done", j |-> 0, cancelled |-> FALSE, stale |-> "fresh",
                  plan |-> "reuse"]>>
    /\ del = IdleDelete
    /\ wlog = {}
    /\ \E name \in NameInputs, text \in TextInputs :
          /\ modal = [isOpen |-> TRUE, bankName |-> name, inputText |-> text,
                      error |-> "", isSaving |-> FALSE]
          /\ hist = [published |-> {1}, deleted |-> {}, nextId0 |-> nextId,
                     input |-> [name |-> name, text |-> text]]
    /\ save = IdleSave
    /\ ProviderOff
    /\ VizOff
    /\ SearchOff
    /\ SchemaOff

SaveNext ==
    \/ handleSave /\ UNCHANGED outsideSave
    \/ SaveTimer /\ UNCHANGED outsideSave
    \/ SaveEmbedded /\ UNCHANGED outsideSave
    \/ SaveEmbedFailed /\ UNCHANGED outsideSave
    \/ SavePut /\ UNCHANGED outsideSave
    \/ SaveAdded /\ UNCHANGED outsideSave
    \/ \E k \in DOMAIN loads : LoadFirstAwait(k) /\ UNCHANGED <<saveVars, outsideSave>>
    \/ StoreEvent /\ UNCHANGED <<appVars, saveVars, outsideSave>>

SpecSave == SaveInit /\ [][SaveNext]_vars

\* C11: an input with more than 20 non-empty lines is rejected: no embedding
\* call, no store write, the stores unchanged; an input with 1 to 20 non-empty
\* lines and a non-empty name no available bank has (case ignored) is not
\* rejected, and when its save has finished the store holds the bank with the
\* trimmed non-empty lines as content and one record per line, in order.
C11_SaveValidation ==
    LET name == TrimName(hist.input.name)
        n == Len(NonEmptyLines(hist.input.text))
        fresh == name # "" /\ LowerCase(name) \notin existingNames(BuiltInNames)
    IN  /\ n > 20 =>
              /\ save.pc \in {"idle", "rejected"}
              /\ ~save.embedCalled
              /\ WritesOf(SaveId) = {}
              /\ customBanks = <<>>
              /\ Len(records) = hist.nextId0 - 1
        /\ (n \in 1..20 /\ fresh) =>
              /\ save.pc # "rejected"
              /\ save.pc = "done" =>
                    /\ name \in DOMAIN customBanks
                    /\ customBanks[name] = NewBankContent(hist.input.text)
                    /\ Len(customBanks[name]) = n
                    /\ TextsOf(RecordsOfBank(records, name)) = customBanks[name]

\* a bank of exactly 20 facts, typed as 21 lines of which one is blank, has
\* been saved
C11_Witness ==
    /\ save.pc = "done"
    /\ Len(Split(hist.input.text)) = 21
    /\ CustomName \in DOMAIN customBanks
    /\ Len(customBanks[CustomName]) = 20
    /\ Len(RecordsOfBank(records, CustomName)) = 20

----------------------------------------------------------------------------
(* The embedding provider: src/unnamed/part_001                            *)

\* the store is not used
StoreOff ==
    /\ dbPromise = 0
    /\ openStatus = <<>>
    /\ records = <<>>
    /\ nextId = 1
    /\ customBanks = <<>>
    /\ op = <<>>
    /\ txq = <<>>

outsideProvider == <<dbPromise, openStatus, records, nextId, customBanks, op, txq,
                     appVars, saveVars, viz, search, schema>>

\* the exported functions that call getInstance
ProviderFns == {"preloadEmbeddingModel", "generateEmbedding"}

IdlePCall == [fn |-> "none", state |-> "idle", via |-> "none", load |-> 0,
              outcome |-> "none"]

\* lines 48 and 52: getInstance starts a load when there is neither an
\* instance nor a promise of one
StartsLoad_NoPromiseTest == instance = 0
StartsLoad == instance = 0 /\ instancePromise = 0

\* what getInstance returns: the instance (line 49), the promise of the load
\* it starts, or the cached promise (line 93)
GetInstanceVia ==
    IF instance # 0 THEN "instance"
    ELSE IF StartsLoad THEN "new"
    ELSE "promise"

\* the load whose instance or promise getInstance returns
GetInstanceLoad ==
    IF instance # 0 THEN instance
    ELSE IF StartsLoad THEN Len(initStatus) + 1
    ELSE instancePromise

\* lines 47-57 and 93: caller c calls getInstance from fn; a new load runs
\* up to `await AutoTokenizer.from_pretrained`
GetInstance(c, fn) ==
    /\ pcall' = [pcall EXCEPT ![c] = [fn |-> fn, state |-> "waiting",
                                      via |-> GetInstanceVia,
                                      load |-> GetInstanceLoad, outcome |-> "none"]]
    /\ initStatus' = IF StartsLoad THEN Append(initStatus, "tokenizer")
                     ELSE initStatus
    /\ instancePromise' = IF StartsLoad THEN Len(initStatus) + 1
                          ELSE instancePromise
    /\ UNCHANGED instance

\* lines 57-70: the tokenizer is loaded; AutoModel.from_pretrained is awaited
TokenizerLoaded(l) ==
    /\ initStatus[l] = "tokenizer"
    /\ initStatus' = [initStatus EXCEPT ![l] = "model"]
    /\ UNCHANGED <<instance, instancePromise, pcall, faults>>

\* lines 70-84: the model is loaded; instance is set and the promise resolved
ModelLoaded(l) ==
    /\ initStatus[l] = "model"
    /\ initStatus' = [initStatus EXCEPT ![l] = "success"]
    /\ instance' = l
    /\ UNCHANGED <<instancePromise, pcall, faults>>

\* line 87: what the catch leaves in instancePromise
InstancePromiseAfterError_Kept == instancePromise
InstancePromiseAfterError == 0

\* lines 85-89: a from_pretrained call has failed; the promise is rejected
LoadFailed(l) ==
    /\ initStatus[l] \in {"tokenizer", "model"}
    /\ faults < MaxFaults
    /\ faults' = faults + 1
    /\ initStatus' = [initStatus EXCEPT ![l] = "error"]
    /\ instancePromise' = InstancePromiseAfterError
    /\ UNCHANGED <<instance, pcall>>

\* the promise getInstance returned to caller c has settled and the `await`
\* of lines 100 and 166 resumes: resolved with the instance, or rejected
GetInstanceSettled(c) ==
    /\ pcall[c].state = "waiting"
    /\ initStatus[pcall[c].load] \in {"success", "error"}
    /\ pcall' = [pcall EXCEPT ![c].state = "settled",
                              ![c].outcome = IF initStatus[pcall[c].load] = "success"
                                             THEN "resolved" ELSE "rejected"]
    /\ UNCHANGED <<instance, instancePromise, initStatus, faults>>

\* an exported function calls getInstance (each row of `pcall` is one call)
ProviderCall(c) ==
    /\ pcall[c].state = "idle"
    /\ \E fn \in ProviderFns : GetInstance(c, fn)
    /\ UNCHANGED faults

ProviderInit ==
    /\ StoreOff
    /\ faults = 0
    /\ AppOff
    /\ SaveOff
    /\ VizOff
    /\ SearchOff
    /\ SchemaOff
    /\ instance = 0
    /\ instancePromise = 0
    /\ initStatus = <<>>
    /\ pcall = [c \in Callers |-> IdlePCall]
    /\ gen = [pc |-> "off"]

ProviderNext ==
    \/ \E c \in Callers : ProviderCall(c) /\ UNCHANGED <<outsideProvider, gen>>
    \/ \E c \in Callers : GetInstanceSettled(c) /\ UNCHANGED <<outsideProvider, gen>>
    \/ \E l \in DOMAIN initStatus : TokenizerLoaded(l) /\ UNCHANGED <<outsideProvider, gen>>
    \/ \E l \in DOMAIN initStatus : ModelLoaded(l) /\ UNCHANGED <<outsideProvider, gen>>
    \/ \E l \in DOMAIN initStatus : LoadFailed(l) /\ UNCHANGED <<outsideProvider, gen>>

SpecProvider == ProviderInit /\ [][ProviderNext]_vars

\* load l is in flight
InFlight(st, l) == st[l] \in {"tokenizer", "model"}

\* caller c calls getInstance in this step
PCalled(c) == pcall[c].state = "idle" /\ pcall'[c].state # "idle"

\* C14: at most one load is in flight; a call made while a load is in flight
\* waits on that load and starts none; once a load has succeeded no load is
\* started.
C14_InitCoalesced ==
    [][ /\ Cardinality({l \in DOMAIN initStatus' : InFlight(initStatus', l)}) <= 1
        /\ \A c \in DOMAIN pcall : \A l \in DOMAIN initStatus :
              (PCalled(c) /\ InFlight(initStatus, l)) =>
                  pcall'[c].load = l /\ Len(initStatus') = Len(initStatus)
        /\ (\E l \in DOMAIN initStatus : initStatus[l] = "success") =>
              Len(initStatus') = Len(initStatus) ]_vars

\* the call that started the load and a call made while it was in flight
\* have both been resolved by that one load
C14_Witness ==
    /\ initStatus = <<"success">>
    /\ \E c, d \in DOMAIN pcall :
          /\ pcall[c].via = "new" /\ pcall[d].via = "promise"
          /\ pcall[c].load = 1 /\ pcall[d].load = 1
          /\ pcall[c].outcome = "resolved" /\ pcall[d].outcome = "resolved"

\* C15: every caller that waited on a load that failed gets the rejection; a
\* promise in the cache is never one that was rejected; a call made when the
\* only loads so far have failed starts a new load and waits on it.
C15_InitFailureNotCached ==
    [][ /\ \A c \in DOMAIN pcall' :
              (pcall'[c].state = "settled" /\ initStatus'[pcall'[c].load] = "error")
                  => pcall'[c].outcome = "rejected"
        /\ (instancePromise' # 0 => initStatus'[instancePromise'] # "error")
        /\ \A c \in DOMAIN pcall :
              (PCalled(c) /\ initStatus # <<>>
                  /\ \A l \in DOMAIN initStatus : initStatus[l] = "error")
              => /\ Len(initStatus') = Len(initStatus) + 1
                 /\ pcall'[c].load = Len(initStatus') ]_vars

\* a load failed and its waiter was rejected; the next call started a second
\* load, which succeeded
C15_Witness ==
    /\ initStatus = <<"error", "success">>
    /\ \E c \in DOMAIN pcall : pcall[c].load = 1 /\ pcall[c].outcome = "rejected"
    /\ \E c \in DOMAIN pcall :
          pcall[c].via = "new" /\ pcall[c].load = 2 /\ pcall[c].outcome = "resolved"

----------------------------------------------------------------------------
(* generateEmbedding: src/unnamed/part_001, lines 96-152                   *)

\* texts in a list passed to generateEmbedding
MaxTexts == 2
\* line 136: const truncate_dim = 256
truncate_dim == 256
\* line 129: the length of the zero vector of the NaN branch under truncation
ZeroDimTruncated == 256
\* lines 114 and 129: `hidden_size || 384`
DefaultHiddenSize == 384

GenId == <<"generateEmbedding", 0>>

\* the texts passed (sequences of characters), and the lists of them
Texts == {<<>>, <<" ">>, <<"a">>, <<"b", " ">>}
TextLists == UNION {[1..n -> Texts] : n \in 0..MaxTexts}

\* the model that gets loaded: the width of its hidden states, the
\* hidden_size its config declares (0: none), and the texts whose pooled
\* output contains NaN
HiddenSizes == {256, 1024}
Envs == {[hidden |-> h, configHidden |-> ch, nanTexts |-> nt] :
            h \in HiddenSizes, ch \in {0} \cup HiddenSizes, nt \in {{}, {<<"a">>}}}

\* A vector is described by its length and by what its components are: all
\* zero, the pooled hidden state of a text, or that state normalized.
\* Array(n).fill(0)
Zeros(n) == [len |-> n, data |-> <<"zero">>]
\* last_token_pool(output.last_hidden_state, inputs.attention_mask)
Pooled(t, env) == [len |-> env.hidden, data |-> <<"pooled", t>>]
\* result.slice([0, batch_size], [0, n])
Slice(v, n) == [v EXCEPT !.len = IF v.len < n THEN v.len ELSE n]
\* result.normalize(2, -1)
Normalize(v) == [v EXCEPT !.data = <<"normalized", v.data[2]>>]

\* lines 114, 129: (model.config as any).hidden_size || 384
HiddenOrDefault(env) ==
    IF env.configHidden # 0 THEN env.configHidden ELSE DefaultHiddenSize

\* line 112: text.trim() === ''
IsBlank_NoTrim(t) == t = <<>>
IsBlank(t) == Trim(t) = <<>>

\* lines 114-115: the vector returned for a blank text
BlankResult(env) == Zeros(HiddenOrDefault(env))

\* lines 125-147: the vector returned once the model has run on text t
InferredResult(t, options, env) ==
    IF t \in env.nanTexts
    THEN Zeros(IF options.truncate THEN ZeroDimTruncated ELSE HiddenOrDefault(env))
    ELSE LET truncated == IF options.truncate THEN Slice(Pooled(t, env), truncate_dim)
                          ELSE Pooled(t, env)
         IN  IF options.normalize THEN Normalize(truncated) ELSE truncated

\* line 106: embeddings.push(embedding)
PushEmbedding_Front(embeddings, e) == <<e>> \o embeddings
PushEmbedding(embeddings, e) == Append(embeddings, e)

\* the text the body of lines 111-147 runs on
CurrentText(g) == IF g.isList THEN g.text[g.i] ELSE g.text

\* line 100: `await getInstance()`, of the call itself or of the nested call
\* of line 105
GenAwaitInstance(g) ==
    /\ GetInstance(GenId, "generateEmbedding")
    /\ gen' = [g EXCEPT !.pc = "getInstance"]

\* lines 104-108: the loop at element i
GenElement(g, i) ==
    IF i > Len(g.text)
    THEN /\ gen' = [g EXCEPT !.pc = "done", !.result = g.embeddings]
         /\ UNCHANGED providerVars
    ELSE GenAwaitInstance([g EXCEPT !.i = i])

\* a single text's call returns vector v: to the caller, or to the loop
GenReturn(g, v) ==
    IF g.isList
    THEN GenElement([g EXCEPT !.embeddings = PushEmbedding(g.embeddings, v)], g.i + 1)
    ELSE /\ gen' = [g EXCEPT !.pc = "done", !.result = v]
         /\ UNCHANGED providerVars

\* line 96-100: generateEmbedding(text, options) is called
GenCall ==
    /\ gen.pc = "start"
    /\ GenAwaitInstance(gen)
    /\ UNCHANGED faults

\* lines 100-118: the instance has arrived, or getInstance has rejected
GenGotInstance ==
    /\ gen.pc = "getInstance"
    /\ pcall[GenId].state = "settled"
    /\ IF pcall[GenId].outcome = "rejected"
       THEN /\ gen' = [gen EXCEPT !.pc = "rejected", !.cause = "getInstance"]
            /\ UNCHANGED providerVars
       ELSE IF gen.isList /\ gen.i = 0
       THEN GenElement(gen, 1)
       ELSE IF IsBlank(CurrentText(gen))
       THEN GenReturn(gen, BlankResult(gen.env))
       ELSE /\ gen' = [gen EXCEPT !.pc = "tokenizer"]
            /\ UNCHANGED providerVars
    /\ UNCHANGED faults

\* lines 118-123: the tokenizer has returned; the model is called
GenTokenized ==
    /\ gen.pc = "tokenizer"
    /\ gen' = [gen EXCEPT !.pc = "model"]
    /\ UNCHANGED <<providerVars, faults>>

\* lines 123-147: the model has returned
GenInferred ==
    /\ gen.pc = "model"
    /\ GenReturn(gen, InferredResult(CurrentText(gen), gen.options, gen.env))
    /\ UNCHANGED faults

\* lines 148-151: the tokenizer or the model has thrown
GenInferFailed ==
    /\ gen.pc \in {"tokenizer", "model"}
    /\ faults < MaxFaults
    /\ faults' = faults + 1
    /\ gen' = [gen EXCEPT !.pc = "rejected", !.cause = gen.pc]
    /\ UNCHANGED providerVars

EmbedInit ==
    /\ StoreOff
    /\ faults = 0
    /\ AppOff
    /\ SaveOff
    /\ VizOff
    /\ SearchOff
    /\ SchemaOff
    /\ instance = 0
    /\ instancePromise = 0
    /\ initStatus = <<>>
    /\ pcall = [c \in {GenId} |-> IdlePCall]
    /\ \E list \in BOOLEAN, truncate \in BOOLEAN, normalize \in BOOLEAN, env \in Envs :
       \E text \in IF list THEN TextLists ELSE Texts :
          gen = [pc |-> "start", text |-> text, isList |-> list,
                 options |-> [truncate |-> truncate, normalize |-> normalize],
                 env |-> env, i |-> 0, embeddings |-> <<>>, result |-> <<>>,
                 cause |-> "none"]

EmbedNext ==
    \/ GenCall /\ UNCHANGED outsideProvider
    \/ GenGotInstance /\ UNCHANGED outsideProvider
    \/ GenTokenized /\ UNCHANGED outsideProvider
    \/ GenInferred /\ UNCHANGED outsideProvider
    \/ GenInferFailed /\ UNCHANGED outsideProvider
    \/ GetInstanceSettled(GenId) /\ UNCHANGED <<outsideProvider, gen>>
    \/ \E l \in DOMAIN initStatus : TokenizerLoaded(l) /\ UNCHANGED <<outsideProvider, gen>>
    \/ \E l \in DOMAIN initStatus : ModelLoaded(l) /\ UNCHANGED <<outsideProvider, gen>>
    \/ \E l \in DOMAIN initStatus : LoadFailed(l) /\ UNCHANGED <<outsideProvider, gen>>

SpecEmbed == EmbedInit /\ [][EmbedNext]_vars

\* the vectors a finished call has returned
ReturnedVectors ==
    IF gen.pc # "done" THEN {}
    ELSE IF gen.isList THEN {gen.result[i] : i \in DOMAIN gen.result}
    ELSE {gen.result}

\* C16: with truncation enabled, every vector generateEmbedding returns has
\* exactly 256 components.
C16_TruncatedLength ==
    gen.options.truncate => \A v \in ReturnedVectors : v.len = 256

\* C17, as stated: a call with an empty or whitespace-only text raises no
\* error and returns an all-zero vector.
C17_BlankNeverRaises ==
    (~gen.isList /\ Trim(gen.text) = <<>>) =>
        /\ gen.pc # "rejected"
        /\ gen.pc = "done" => gen.result.data = <<"zero">>

\* C17, amended: a call with an empty or whitespace-only text never calls the
\* tokenizer or the model; it returns an all-zero vector, of hidden_size (or
\* 384) components, unless getInstance rejects, which is then the error of
\* the call.
C17_BlankGivesZeros ==
    (~gen.isList /\ Trim(gen.text) = <<>>) =>
        /\ gen.pc \notin {"tokenizer", "model"}
        /\ gen.pc = "done" =>
              /\ gen.result.data = <<"zero">>
              /\ gen.result.len = HiddenOrDefault(gen.env)
        /\ gen.pc = "rejected" =>
              /\ gen.cause = "getInstance"
              /\ initStatus[pcall[GenId].load] = "error"

\* a call with a whitespace-only text has returned zeros
C17_Witness ==
    /\ ~gen.isList
    /\ gen.text = <<" ">>
    /\ gen.pc = "done"
    /\ gen.result = Zeros(HiddenOrDefault(gen.env))

\* C18: a call with a list of n texts that returns, returns n vectors, and
\* the vector at position i is the one a call with the text at position i
\* returns.
C18_ListOrder ==
    (gen.isList /\ gen.pc = "done") =>
        /\ Len(gen.result) = Len(gen.text)
        /\ \A i \in DOMAIN gen.text :
              gen.result[i] = IF Trim(gen.text[i]) = <<>> THEN BlankResult(gen.env)
                              ELSE InferredResult(gen.text[i], gen.options, gen.env)

\* a call with a list of two texts that have different embeddings has returned
C18_Witness ==
    /\ gen.isList
    /\ gen.pc = "done"
    /\ Len(gen.text) = 2
    /\ gen.result[1] # gen.result[2]

----------------------------------------------------------------------------
(* The neighbor graph: src/src/components/MemoryVisualizer.tsx, lines 58-124 *)
(* Similarities are in hundredths; index j of a row is index j - 1 of the    *)
(* array of the code, and indexOf's -1 is 0.                                 *)

\* memory items of the bank shown
MaxNodes == 5
\* line 84: const MAX_CONNECTIONS = 3
MAX_CONNECTIONS == 3
\* line 99: if (maxSim <= 0.1) break
SimThreshold == 10
\* line 104: similarities[maxIndex] = -1
TakenMark == -100

\* the embeddings the component is given: vectors whose cosines are exact in
\* hundredths, the zero vector (an empty fact) included
GraphVectors == {<<1, 0>>, <<0, 1>>, <<3, 4>>, <<4, 3>>, <<-1, 0>>, <<0, 0>>}
GraphInputs == UNION {[1..n -> GraphVectors] : n \in 0..MaxNodes}

Dot(a, b) == a[1] * b[1] + a[2] * b[2]
Magnitude(a) == CHOOSE m \in 0..5 : m * m = Dot(a, a)

\* ../memory/similarity: dot(a, b) / (|a| |b|), and 0 when a magnitude is 0
cosineSimilarity(a, b) ==
    IF Magnitude(a) = 0 \/ Magnitude(b) = 0 THEN 0
    ELSE (100 * Dot(a, b)) \div (Magnitude(a) * Magnitude(b))

\* lines 70-82, without the test of line 75
similarityMatrix_NoDiagonal(embeddings) ==
    [i \in DOMAIN embeddings |->
        [j \in DOMAIN embeddings |-> cosineSimilarity(embeddings[i], embeddings[j])]]

\* lines 70-82
similarityMatrix(embeddings) ==
    [i \in DOMAIN embeddings |->
        [j \in DOMAIN embeddings |->
            IF i = j THEN 0 ELSE cosineSimilarity(embeddings[i], embeddings[j])]]

\* Math.max(...similarities), of a row that is not empty
MaxOf(similarities) ==
    CHOOSE x \in {similarities[j] : j \in DOMAIN similarities} :
        \A j \in DOMAIN similarities : similarities[j] <= x

\* row.indexOf(x)
IndexOf(row, x) ==
    IF \E j \in DOMAIN row : row[j] = x
    THEN CHOOSE j \in DOMAIN row : row[j] = x /\ \A k \in 1..(j - 1) : row[k] # x
    ELSE 0

\* line 94: the test of `for (let i = 0; i < MAX_CONNECTIONS; i++)`
LoopBound_Inclusive(i) == i <= MAX_CONNECTIONS
LoopBound(i) == i < MAX_CONNECTIONS

\* lines 94-105: the loop from iteration i, `row` being similarityMatrix[id]
RECURSIVE Connections(_, _, _, _)
Connections(row, similarities, connections, i) ==
    IF ~LoopBound(i) THEN connections
    ELSE IF Len(similarities) = 0 THEN connections
    ELSE LET maxSim == MaxOf(similarities)
         IN  IF maxSim <= SimThreshold THEN connections
             ELSE LET maxIndex == IndexOf(row, maxSim)
                  IN  Connections(row, [similarities EXCEPT ![maxIndex] = TakenMark],
                                  Append(connections, maxIndex), i + 1)

\* lines 86-120: newNodes, reduced to the connections of each node
NewNodes(embeddings) ==
    LET matrix == similarityMatrix(embeddings)
    IN  [id \in DOMAIN embeddings |->
            [connections |-> Connections(matrix[id], matrix[id], <<>>, 0)]]

\* line 59: the effect returns at once
EffectSkips(v) ==
    ~v.isLoaded \/ v.numItems = 0 \/ Len(v.embeddings) # v.numItems

\* lines 58-124: the effect runs for the props of this render
GraphEffect ==
    /\ viz.pc = "rendered"
    /\ viz' = IF EffectSkips(viz) THEN [viz EXCEPT !.pc = "skipped"]
              ELSE [viz EXCEPT !.pc = "built", !.nodes = NewNodes(viz.embeddings)]

GraphInit ==
    /\ StoreOff
    /\ faults = 0
    /\ AppOff
    /\ SaveOff
    /\ ProviderOff
    /\ SearchOff
    /\ SchemaOff
    /\ \E embeddings \in GraphInputs, loaded \in BOOLEAN, extra \in {0, 1} :
          viz = [pc |-> "rendered", isLoaded |-> loaded, embeddings |-> embeddings,
                 numItems |-> Len(embeddings) + extra, nodes |-> <<>>]

GraphNext ==
    \/ GraphEffect /\ UNCHANGED <<storeVars, appVars, saveVars, providerVars, gen, search, schema>>

SpecGraph == GraphInit /\ [][GraphNext]_vars

\* the reference greedy extraction over a similarity row: the largest
\* similarity not yet taken, the lowest index among equal values, until it
\* does not exceed the threshold or MAX_CONNECTIONS neighbors are taken
RECURSIVE GreedyReference(_, _, _)
GreedyReference(row, taken, count) ==
    LET remaining == DOMAIN row \ taken
    IN  IF count = 3 \/ remaining = {} THEN <<>>
        ELSE LET best == CHOOSE j \in remaining :
                            \A k \in remaining :
                                row[k] < row[j] \/ (row[k] = row[j] /\ j <= k)
             IN  IF row[best] <= 10 THEN <<>>
                 ELSE <<best>> \o GreedyReference(row, taken \cup {best}, count + 1)

\* C19: the connections of every node are the reference greedy extraction
\* over the node's similarity row.
C19_GreedyConnections ==
    viz.pc = "built" =>
        \A id \in DOMAIN viz.nodes :
            viz.nodes[id].connections =
                GreedyReference(similarityMatrix(viz.embeddings)[id], {}, 0)

\* C20: every node of the graph has at most 3 outgoing edges.
C20_OutDegree ==
    viz.pc = "built" =>
        \A id \in DOMAIN viz.nodes : Len(viz.nodes[id].connections) <= 3

\* a node with four neighbors above the threshold has three connections
C20_Witness ==
    /\ viz.pc = "built"
    /\ \E id \in DOMAIN viz.nodes :
          /\ Len(viz.nodes[id].connections) = 3
          /\ Cardinality({j \in DOMAIN viz.embeddings :
                            similarityMatrix(viz.embeddings)[id][j] > 10}) >= 4

\* C21: every edge of the graph goes from a node to another node whose
\* similarity to it is greater than 0.1.
C21_EdgesAboveThreshold ==
    viz.pc = "built" =>
        \A id \in DOMAIN viz.nodes :
            \A k \in DOMAIN viz.nodes[id].connections :
                LET j == viz.nodes[id].connections[k]
                IN  /\ j \in DOMAIN viz.embeddings
                    /\ j # id
                    /\ cosineSimilarity(viz.embeddings[id], viz.embeddings[j]) > 10

\* a node with an edge, and with another node at or below the threshold that
\* it has no edge to
C21_Witness ==
    /\ viz.pc = "built"
    /\ \E id \in DOMAIN viz.nodes :
          /\ viz.nodes[id].connections # <<>>
          /\ \E j \in DOMAIN viz.embeddings :
                /\ j # id
                /\ cosineSimilarity(viz.embeddings[id], viz.embeddings[j]) <= 10
                /\ \A k \in DOMAIN viz.nodes[id].connections :
                      viz.nodes[id].connections[k] # j

----------------------------------------------------------------------------
(* Searching a bank: src/src/App.tsx, handleSearch, lines 401-433           *)
(* Scores are cosines in hundredths, as in the neighbor graph.               *)

\* entries of the bank that is searched
MaxBank == 3

\* the texts of a bank, all different so that a result names its entry
BankTexts == <<"t1", "t2", "t3", "t4">>
Queries == {"", "q1", "q2"}

\* line 417-420: currentMemoryBank.map((text, i) => ({text, score: sim}))
Scored(bank, embeddings, queryEmbedding) ==
    [i \in DOMAIN bank |->
        [text |-> bank[i], score |-> cosineSimilarity(queryEmbedding, embeddings[i])]]

\* line 422: the comparator (a, b) => b.score - a.score
Compare_Ascending(a, b) == a.score - b.score
Compare(a, b) == b.score - a.score

\* Array.prototype.sort is stable: an element is placed after every element
\* that the comparator does not order after it.
RECURSIVE InsertSorted(_, _)
InsertSorted(sorted, x) ==
    IF sorted = <<>> THEN <<x>>
    ELSE IF Compare(x, Head(sorted)) < 0 THEN <<x>> \o sorted
    ELSE <<Head(sorted)>> \o InsertSorted(Tail(sorted), x)

\* line 422: results.sort(...)
RECURSIVE SortResults(_)
SortResults(results) ==
    IF results = <<>> THEN <<>>
    ELSE InsertSorted(SortResults(SubSeq(results, 1, Len(results) - 1)),
                      results[Len(results)])

\* line 606: the search button is enabled
SearchEnabled == ~search.loading /\ search.ready

\* line 593: the user types a query
SetQuery(q) ==
    /\ search.pc = "idle"
    /\ q # search.query
    /\ search' = [search EXCEPT !.query = q]
    /\ UNCHANGED faults

\* lines 401-414: the button is clicked
handleSearch ==
    /\ search.pc = "idle"
    /\ SearchEnabled
    /\ search' = IF search.query = ""
                 THEN [search EXCEPT !.alert = "Please enter a query."]
                 ELSE [search EXCEPT !.pc = "embedding", !.loading = TRUE,
                                     !.searchResults = <<>>, !.alert = "",
                                     !.outcome = "none"]
    /\ UNCHANGED faults

\* lines 414-423, 430-432: generateQueryEmbedding has returned a vector
SearchEmbedded(queryEmbedding) ==
    /\ search.pc = "embedding"
    /\ search' = [search EXCEPT
                    !.pc = "idle", !.loading = FALSE, !.outcome = "published",
                    !.queryEmbedding = queryEmbedding,
                    !.searchResults =
                        SortResults(Scored(search.bank, search.embeddings, queryEmbedding))]
    /\ UNCHANGED faults

\* the failure turned into a ranking: every entry with score 0
SearchEmbedFailed_Masked ==
    /\ search.pc = "embedding"
    /\ faults < MaxFaults
    /\ faults' = faults + 1
    /\ search' = [search EXCEPT
                    !.pc = "idle", !.loading = FALSE, !.outcome = "failed",
                    !.alert = "Failed to perform search.",
                    !.searchResults = [i \in DOMAIN search.bank |->
                                          [text |-> search.bank[i], score |-> 0]]]

\* lines 427-432: generateQueryEmbedding has rejected
SearchEmbedFailed ==
    /\ search.pc = "embedding"
    /\ faults < MaxFaults
    /\ faults' = faults + 1
    /\ search' = [search EXCEPT
                    !.pc = "idle", !.loading = FALSE, !.outcome = "failed",
                    !.alert = "Failed to perform search."]

\* the App with a bank on screen: its texts, and memoryBankEmbeddings (not
\* yet set, or one vector per text)
SearchInit ==
    /\ StoreOff
    /\ faults = 0
    /\ AppOff
    /\ SaveOff
    /\ ProviderOff
    /\ VizOff
    /\ SchemaOff
    /\ \E n \in 0..MaxBank, ready \in BOOLEAN :
       \E embeddings \in [1..n -> GraphVectors] :
          search = [pc |-> "idle", query |-> "", loading |-> FALSE,
                    searchResults |-> <<>>, alert |-> "",
                    bank |-> SubSeq(BankTexts, 1, n), ready |-> ready,
                    embeddings |-> IF ready THEN embeddings ELSE <<>>,
                    queryEmbedding |-> <<>>, outcome |-> "none"]

SearchFrame == <<dbPromise, openStatus, records, nextId, customBanks, op, txq,
                 appVars, saveVars, providerVars, gen, viz, schema>>

SearchNext ==
    \/ \E q \in Queries : SetQuery(q) /\ UNCHANGED SearchFrame
    \/ handleSearch /\ UNCHANGED SearchFrame
    \/ \E v \in GraphVectors : SearchEmbedded(v) /\ UNCHANGED SearchFrame
    \/ SearchEmbedFailed /\ UNCHANGED SearchFrame

SpecSearch == SearchInit /\ [][SearchNext]_vars

\* the position of a text in the bank searched
PositionOf(text) == CHOOSE i \in DOMAIN search.bank : search.bank[i] = text

\* C22: a completed search publishes one (text, score) entry per entry of
\* the bank, by non-increasing score, entries of equal score in bank order;
\* for e1 = [1,0], e2 = [0,1], q = [1,0] it publishes [(t1, 1.0), (t2, 0.0)].
C22_RankedResults ==
    search.outcome = "published" =>
        LET rs == search.searchResults
            q == search.queryEmbedding
        IN  /\ Len(rs) = Len(search.bank)
            /\ \A i \in DOMAIN search.bank :
                  \E k \in DOMAIN rs :
                      rs[k] = [text |-> search.bank[i],
                               score |-> cosineSimilarity(q, search.embeddings[i])]
            /\ \A k, l \in DOMAIN rs :
                  k < l => /\ rs[k].score >= rs[l].score
                           /\ rs[k].score = rs[l].score =>
                                 PositionOf(rs[k].text) < PositionOf(rs[l].text)
            /\ (/\ search.embeddings = << <<1, 0>>, <<0, 1>> >>
                /\ q = <<1, 0>>)
                  => rs = << [text |-> "t1", score |-> 100], [text |-> "t2", score |-> 0] >>

\* a published ranking of three entries that is not in bank order and has
\* two entries of equal score
C22_Witness ==
    /\ search.outcome = "published"
    /\ Len(search.searchResults) = 3
    /\ search.searchResults[1].text = "t3"
    /\ search.searchResults[2].score = search.searchResults[3].score
    /\ search.searchResults[1].score > search.searchResults[2].score

\* C27: when generateQueryEmbedding fails, the search publishes no results,
\* the user is told of the failure and loading goes back to false.
C27_FailureNotMasked ==
    [][(search.pc = "embedding" /\ search'.outcome = "failed") =>
          /\ search'.searchResults = <<>>
          /\ search'.alert = "Failed to perform search."
          /\ ~search'.loading
          /\ search'.pc = "idle"]_vars

\* a search of a bank with entries has failed
C27_Witness ==
    /\ search.outcome = "failed"
    /\ search.bank # <<>>
    /\ search.searchResults = <<>>
    /\ ~search.loading

----------------------------------------------------------------------------
(* Relevance of a score: src/src/App.tsx, getRelevance, lines 197-201       *)
(* Scores are in thousandths here, so that both sides of 0.49 and of 0.38    *)
(* are scores.                                                               *)

\* line 198: score > 0.49
HighAbove == 490
\* line 199: score > 0.38
MediumAbove == 380

\* the cosines
Scores == -1000..1000

\* lines 197-201, with >= for >
getRelevance_Inclusive(score) ==
    IF score >= HighAbove THEN "high-relevance"
    ELSE IF score >= MediumAbove THEN "medium-relevance"
    ELSE "low-relevance"

\* lines 197-201
getRelevance(score) ==
    IF score > HighAbove THEN "high-relevance"
    ELSE IF score > MediumAbove THEN "medium-relevance"
    ELSE "low-relevance"

\* lines 523-524: a result of the list is rendered
RenderResult ==
    /\ search.pc = "result"
    /\ search' = [search EXCEPT !.pc = "rendered",
                                !.relevance = getRelevance(search.score)]

RelevanceInit ==
    /\ StoreOff
    /\ faults = 0
    /\ AppOff
    /\ SaveOff
    /\ ProviderOff
    /\ VizOff
    /\ SchemaOff
    /\ \E score \in Scores :
          search = [pc |-> "result", score |-> score, relevance |-> ""]

RelevanceNext ==
    \/ RenderResult /\ UNCHANGED <<SearchFrame, faults>>

SpecRelevance == RelevanceInit /\ [][RelevanceNext]_vars

\* C23: a score is high when above 0.49, medium when above 0.38 and at most
\* 0.49, low when at most 0.38.
C23_RelevanceClasses ==
    search.pc = "rendered" =>
        /\ search.relevance = "high-relevance" <=> search.score > 490
        /\ search.relevance = "medium-relevance" <=>
              (380 < search.score /\ search.score <= 490)
        /\ search.relevance = "low-relevance" <=> search.score <= 380

\* the score 0.49 has been classified, as medium
C23_Witness ==
    /\ search.pc = "rendered"
    /\ search.score = 490
    /\ search.relevance = "medium-relevance"

----------------------------------------------------------------------------
(* Further claims about the store layer, checked under SpecStore *)

\* the request of caller c has failed on an open connection
RequestFailed(c) ==
    /\ op[c].state = "rejected"
    /\ openStatus[op[c].promise] = "success"

\* C24: the failure of an operation's request rejects that operation only and
\* leaves the cached connection and the stores as they are; an operation
\* called after it runs on the same connection, without a new open.
C24_FailureKeepsConnection ==
    [][/\ \A c \in DOMAIN op :
             (op[c].state = "request" /\ op'[c].state = "rejected") =>
                /\ dbPromise' = dbPromise
                /\ openStatus' = openStatus
                /\ records' = records
                /\ customBanks' = customBanks
                /\ \A d \in DOMAIN op \ {c} : op'[d] = op[d]
       /\ \A d \in DOMAIN op :
             (Called(d) /\ \E c \in DOMAIN op : RequestFailed(c)) =>
                /\ openStatus' = openStatus
                /\ dbPromise' = dbPromise
                /\ op'[d].promise = dbPromise
                /\ op'[d].state = "request"]_vars

\* one open was made, the request of one operation has failed and another
\* operation has its request on the same connection
C24_Witness ==
    /\ Len(openStatus) = 1
    /\ \E c, d \in DOMAIN op :
          /\ RequestFailed(c)
          /\ op[d].state = "request"
          /\ op[d].promise = op[c].promise
          /\ dbPromise = op[c].promise

\* C25: when clearRecordsByBank(b) completes, the records left are the
\* records of the other banks, unchanged and in their order.
C25_ClearOnlyThatBank ==
    [][\A c \in DOMAIN op :
          (/\ op[c].kind = "clearRecordsByBank"
           /\ op[c].state = "request"
           /\ op'[c].state = "resolved") =>
              /\ \A i \in DOMAIN records' : records'[i].bank # op[c].arg.bank
              /\ \A i \in DOMAIN records :
                    records[i].bank # op[c].arg.bank =>
                        \E j \in DOMAIN records' : records'[j] = records[i]
              /\ \A j \in DOMAIN records' :
                    \E i \in DOMAIN records : records[i] = records'[j]
              /\ \A j, k \in DOMAIN records' : j < k => records'[j].id < records'[k].id]_vars

\* a clear of the custom bank has completed: its two stored records are gone
\* and the record of General is there
C25_Witness ==
    \E c \in DOMAIN op :
        /\ op[c].kind = "clearRecordsByBank"
        /\ op[c].arg.bank = CustomName
        /\ op[c].state = "resolved"
        /\ \A d \in DOMAIN op \ {c} : op[d].state = "idle"
        /\ records = SelectSeq(StoredRecords, LAMBDA r : r.bank = "General")
        /\ records # <<>>

----------------------------------------------------------------------------
(* The schema upgrade: src/unnamed/part_000, openDB, lines 21-58            *)
(* schema.stores maps the name of each object store of the database to the   *)
(* names of its indexes.                                                     *)

\* line 2: const DB_VERSION = 4
DB_VERSION == 4

\* what a build with a lower DB_VERSION may have left: no 'memories' store,
\* or one with any of the indexes that this build names; 'custom_banks' or not
PriorStores ==
    {[n \in names |-> IF n = "memories" THEN idx ELSE {}] :
        names \in SUBSET {"memories", "custom_banks"},
        idx \in SUBSET {"timestamp", "bank"}}

\* what this build leaves (lines 31, 41, 45)
CurrentStores ==
    [n \in {"memories", "custom_banks"} |-> IF n = "memories" THEN {"bank"} ELSE {}]

\* lines 29-34: the 'memories' store is created when absent
WithStore(stores, name) ==
    IF name \in DOMAIN stores THEN stores
    ELSE [n \in DOMAIN stores \cup {name} |-> IF n = name THEN {} ELSE stores[n]]

\* lines 36-38: deleteIndex('timestamp') when it is there
WithoutIndex(stores, name, index) == [stores EXCEPT ![name] = @ \ {index}]

\* lines 40-42: createIndex('bank') when it is not there
WithIndex_Skipped(stores, name, index) == stores
WithIndex(stores, name, index) == [stores EXCEPT ![name] = @ \cup {index}]

\* lines 24-47: request.onupgradeneeded
Upgrade(stores) ==
    LET created == WithStore(stores, "memories")
        dropped == WithoutIndex(created, "memories", "timestamp")
        indexed == WithIndex(dropped, "memories", "bank")
    IN  WithStore(indexed, "custom_banks")

\* line 22: indexedDB.open(DB_NAME, DB_VERSION) in a new session
OpenRequested ==
    /\ schema.pc \in {"closed", "failed"}
    /\ schema' = [schema EXCEPT !.pc = "opening"]
    /\ UNCHANGED faults

\* lines 24-47: the database is older than DB_VERSION; the handler runs in
\* the version-change transaction
UpgradeNeeded ==
    /\ schema.pc = "opening"
    /\ schema.version < DB_VERSION
    /\ schema' = [schema EXCEPT !.pc = "upgraded", !.version = DB_VERSION,
                                !.before = schema.stores,
                                !.stores = Upgrade(schema.stores)]
    /\ UNCHANGED faults

\* lines 49-52: request.onsuccess
OpenSucceeded ==
    /\ \/ schema.pc = "opening" /\ schema.version = DB_VERSION
       \/ schema.pc = "upgraded"
    /\ schema' = [schema EXCEPT !.pc = "open"]
    /\ UNCHANGED faults

\* lines 54-58: request.onerror; an open that fails leaves the database as
\* it was
OpenFailed ==
    /\ schema.pc = "opening"
    /\ faults < MaxFaults
    /\ faults' = faults + 1
    /\ schema' = [schema EXCEPT !.pc = "failed"]

\* the page is closed; the next session opens the database again
SessionEnds ==
    /\ schema.pc = "open"
    /\ schema' = [schema EXCEPT !.pc = "closed"]
    /\ UNCHANGED faults

UpgradeInit ==
    /\ StoreOff
    /\ faults = 0
    /\ AppOff
    /\ SaveOff
    /\ ProviderOff
    /\ VizOff
    /\ SearchOff
    /\ \E version \in 0..DB_VERSION :
       \E stores \in IF version = 0 THEN {<<>>}
                     ELSE IF version = DB_VERSION THEN {CurrentStores}
                     ELSE PriorStores :
          schema = [pc |-> "closed", version |-> version, stores |-> stores,
                    before |-> stores]

UpgradeFrame == <<dbPromise, openStatus, records, nextId, customBanks, op, txq,
                  appVars, saveVars, providerVars, gen, viz, search>>

UpgradeNext ==
    \/ OpenRequested /\ UNCHANGED UpgradeFrame
    \/ UpgradeNeeded /\ UNCHANGED UpgradeFrame
    \/ OpenSucceeded /\ UNCHANGED UpgradeFrame
    \/ OpenFailed /\ UNCHANGED UpgradeFrame
    \/ SessionEnds /\ UNCHANGED UpgradeFrame

SpecUpgrade == UpgradeInit /\ [][UpgradeNext]_vars

\* the schema of this build
UpgradedStores(stores) ==
    /\ DOMAIN stores = {"memories", "custom_banks"}
    /\ stores["memories"] = {"bank"}
    /\ stores["custom_banks"] = {}

\* C26: after the upgrade the database has the 'memories' store with the
\* bank index and no other, and the 'custom_banks' store; the upgrade of an
\* upgraded schema changes nothing.
C26_UpgradeIdempotent ==
    /\ schema.version = DB_VERSION =>
          /\ UpgradedStores(schema.stores)
          /\ Upgrade(schema.stores) = schema.stores
    /\ Upgrade(Upgrade(schema.stores)) = Upgrade(schema.stores)

\* a database that had the 'memories' store with the timestamp index alone
\* has been upgraded and opened
C26_Witness ==
    /\ schema.pc = "open"
    /\ schema.before = [n \in {"memories"} |-> {"timestamp"}]
    /\ UpgradedStores(schema.stores)

----------------------------------------------------------------------------
(* Further claims about the App, checked under Spec *)

BuiltIns == {BuiltInNames[i] : i \in DOMAIN BuiltInNames}

\* C28: every built-in bank is always among the available banks, and a
\* deletion is only ever requested, confirmed and run for a custom bank.
C28_BuiltInsStay ==
    /\ BuiltIns \subseteq {availableBanks[i] : i \in DOMAIN availableBanks}
    /\ bankToDelete \notin BuiltIns
    /\ del.pc # "idle" => del.bank \notin BuiltIns
    /\ \A c \in DOMAIN op :
          op[c].kind = "deleteCustomBank" => op[c].arg.bank \notin BuiltIns

\* the custom bank has been deleted and removed from the available banks
C28_Witness ==
    /\ CustomName \in hist.deleted
    /\ del.pc = "idle"
    /\ bankToDelete = ""
    /\ availableBanks = BuiltInNames

\* C29: the startup pass takes a step only when the operation it awaits has
\* completed or failed: it has no operation in flight when it goes on to the
\* next call or the next bank.
C29_BanksInTurn ==
    [][<<setup'.pc, setup'.i, setup'.j>> # <<setup.pc, setup.i, setup.j>> =>
          op[SetupId].state \in {"idle", "resolved", "rejected"}]_vars

\* the pass has re-embedded the first bank and is fetching the second
C29_Witness ==
    /\ setup.i = 2
    /\ setup.pc = "fetch"
    /\ setup.status[BuiltInNames[1]] = "ok"
    /\ <<SetupId, BuiltInNames[1], "add", Len(memoryBanks(BuiltInNames[1]))>> \in wlog

----------------------------------------------------------------------------
(* A further claim about creating a custom bank, checked under SpecSave *)

\* the save has failed before saveCustomBank was called: generateEmbedding
\* has thrown
SaveFailedAtEmbed ==
    /\ save.pc = "failed"
    /\ <<SaveId, save.name, "save", 0>> \notin wlog

\* C30: when generateEmbedding fails during the creation of a custom bank,
\* no bank and no record is stored, the available banks and the active bank
\* are as before, and the dialog shows the failure.
C30_EmbedFailureSavesNothing ==
    SaveFailedAtEmbed =>
        /\ WritesOf(SaveId) = {}
        /\ customBanks = <<>>
        /\ RecordsOfBank(records, save.name) = <<>>
        /\ Len(records) = hist.nextId0 - 1
        /\ availableBanks = BuiltInNames
        /\ activeBank = "General"
        /\ modal.isOpen
        /\ ~modal.isSaving
        /\ modal.error = "Failed to save and embed the bank. Please try again."

\* the embedding of a valid new bank has failed
C30_Witness ==
    /\ SaveFailedAtEmbed
    /\ save.embedCalled
    /\ Len(save.content) >= 1
    /\ modal.error # ""

----------------------------------------------------------------------------
(* The embeddings a search would use, checked under Spec *)

\* lines 541, 606: the search box is rendered and its button is enabled
SearchPermitted == mounted /\ ~isAppLoading /\ memoryBankEmbeddings # <<>>

\* the embeddings of the entries of a content, position by position
EmbeddingsOfContent(content) == [i \in DOMAIN content |-> Embedding(content[i])]

\* C31: whenever a search is permitted, the ready embedding list is the one
\* of the active bank: position i holds the embedding of entry i of the
\* content of the active bank.
C31_EmbeddingsOfActiveBank ==
    SearchPermitted =>
        memoryBankEmbeddings[1] =
            EmbeddingsOfContent(CurrentBankContent(activeBank, customBankData))

----------------------------------------------------------------------------
(* A session after the startup: the bank selector and the search box        *)
(* together.  src/src/App.tsx, lines 347-386 (loadBank), 401-433            *)
(* (handleSearch), 617-623 (bank buttons).  No bank is created or deleted.   *)

\* the numeric value of the opaque embedding of a text, for the cosine
VectorOf(e) ==
    CASE e[2] = "a" -> <<1, 0>>
      [] e[2] = "b" -> <<0, 1>>
      [] OTHER -> <<3, 4>>
Vectors(embeddings) == [i \in DOMAIN embeddings |-> VectorOf(embeddings[i])]

\* the vectors generateQueryEmbedding may return
QueryVectors == {<<1, 0>>, <<4, 3>>}

\* line 351: loadBank begins with setSearchResults([])
ResultsCleared == [search EXCEPT !.searchResults = <<>>, !.resultsOf = ""]

\* line 621 with lines 347-353: a bank button is clicked and loadBank starts
SessionSwitchBank(name) ==
    /\ SwitchBank(name)
    /\ search' = ResultsCleared

\* lines 401-414: handleSearch is called; the callback holds the
\* currentMemoryBank, the memoryBankEmbeddings and the activeBank of the
\* render that created it (line 433)
SearchClicked ==
    /\ FooterShown
    /\ search.pc = "idle"
    /\ ~search.loading
    /\ search' = IF search.query = ""
                 THEN [search EXCEPT !.alert = "Please enter a query."]
                 ELSE [search EXCEPT
                          !.pc = "embedding", !.loading = TRUE,
                          !.searchResults = <<>>, !.resultsOf = "",
                          !.alert = "", !.outcome = "none",
                          !.of = activeBank,
                          !.bank = CurrentBankContent(activeBank, customBankData),
                          !.embeddings = memoryBankEmbeddings[1]]
    /\ UNCHANGED faults

\* lines 427-432: the catch and the finally of handleSearch
SearchCaught ==
    [search EXCEPT !.pc = "idle", !.loading = FALSE, !.outcome = "failed",
                   !.alert = "Failed to perform search."]

\* line 423: setSearchResults(results), with no test of the active bank
PublishResults(results) ==
    [search EXCEPT !.pc = "idle", !.loading = FALSE, !.outcome = "published",
                   !.searchResults = results, !.resultsOf = search.of]

\* lines 414-423, 430-432: generateQueryEmbedding has returned a vector.  An
\* entry without a vector at its position makes cosineSimilarity read a
\* component of undefined, which throws into the catch.
SearchResolved(queryEmbedding) ==
    /\ search.pc = "embedding"
    /\ search' =
          IF Len(search.embeddings) < Len(search.bank) THEN SearchCaught
          ELSE PublishResults(SortResults(Scored(search.bank,
                                                 Vectors(search.embeddings),
                                                 queryEmbedding)))
    /\ UNCHANGED faults

\* lines 414, 427-432: generateQueryEmbedding has rejected
SearchRejected ==
    /\ search.pc = "embedding"
    /\ faults < MaxFaults
    /\ faults' = faults + 1
    /\ search' = SearchCaught

\* the App once setup has finished and the first loadBank has published the
\* embeddings of General: the built-in banks are synchronized, the connection
\* is open, and the custom bank of an earlier session (if any) is listed,
\* with all or part of its records
SessionInit ==
    /\ dbPromise = 1
    /\ openStatus = <<"success">>
    /\ \E c \in StoredCustom :
          /\ records = StoredFrom(Tagged("General", memoryBanks("General"))
                                    \o Tagged("Science", memoryBanks("Science"))
                                    \o Tagged(CustomName, c.texts), 1)
          /\ customBanks = IF c.content = <<>> THEN <<>>
                           ELSE [n \in {CustomName} |-> c.content]
    /\ nextId = Len(records) + 1
    /\ op = [c \in AppCallers |-> IdleOp]
    /\ txq = <<>>
    /\ faults = 0
    /\ mounted = TRUE
    /\ isAppLoading = FALSE
    /\ activeBank = "General"
    /\ availableBanks = BuiltInNames \o CustomBankKeys(customBanks)
    /\ customBankData = customBanks
    /\ memoryBankEmbeddings = <<Embeddings(RecordsOfBank(records, "General"))>>
    /\ bankToDelete = ""
    /\ setup = [pc |-> "done", i |-> Len(BuiltInNames) + 1, j |-> 0,
                cancelled |-> FALSE, names |-> CustomBankKeys(customBanks),
                customData |-> customBanks,
                fresh |-> SeqToSet(BuiltInNames), oneDiff |-> {},
                status |-> [b \in SeqToSet(BuiltInNames) |-> "ok"]]
    /\ loads = << [bank |-> "General", content |-> memoryBanks("General"),
                   pc |-> "done", j |-> 0, cancelled |-> FALSE,
                   stale |-> "fresh", plan |-> "reuse"] >>
    /\ del = IdleDelete
    /\ wlog = {}
    /\ hist = [published |-> {1}, deleted |-> {}, cleared |-> {},
               nextId0 |-> nextId]
    /\ SaveOff
    /\ ProviderOff
    /\ VizOff
    /\ SchemaOff
    /\ search = [pc |-> "idle", query |-> "", loading |-> FALSE,
                 searchResults |-> <<>>, resultsOf |-> "", alert |-> "",
                 of |-> "", bank |-> <<>>, embeddings |-> <<>>,
                 outcome |-> "none"]

SessionRest == <<saveVars, providerVars, gen, viz, schema>>

SessionNext ==
    \/ \E name \in BankNames : SessionSwitchBank(name) /\ UNCHANGED SessionRest
    \/ \E k \in DOMAIN loads : LoadFirstAwait(k) /\ UNCHANGED outsideApp
    \/ \E k \in DOMAIN loads : LoadCleared(k) /\ UNCHANGED outsideApp
    \/ \E k \in DOMAIN loads : LoadEmbedded(k) /\ UNCHANGED outsideApp
    \/ \E k \in DOMAIN loads : LoadEmbedFailed(k) /\ UNCHANGED outsideApp
    \/ \E k \in DOMAIN loads : LoadAdded(k) /\ UNCHANGED outsideApp
    \/ \E k \in DOMAIN loads : LoadRefetched(k) /\ UNCHANGED outsideApp
    \/ \E c \in DOMAIN op : RequestSuccess(c) /\ UNCHANGED <<appVars, outsideApp>>
    \/ \E c \in DOMAIN op : RequestError(c) /\ UNCHANGED <<appVars, outsideApp>>
    \/ \E q \in Queries : SetQuery(q) /\ UNCHANGED SearchFrame
    \/ SearchClicked /\ UNCHANGED SearchFrame
    \/ \E v \in QueryVectors : SearchResolved(v) /\ UNCHANGED SearchFrame
    \/ SearchRejected /\ UNCHANGED SearchFrame

SpecSession == SessionInit /\ [][SessionNext]_vars

\* C32: the search results on screen are results of a search of the active
\* bank: a search whose query embedding arrives after the active bank has
\* changed publishes nothing.
C32_ResultsOfActiveBank ==
    search.searchResults # <<>> => search.resultsOf = activeBank

----------------------------------------------------------------------------
(* The active bank and the bank selector, checked under Spec *)

\* C33: when no timer of handleConfirmDelete is pending, the active bank is
\* one of the available banks, however bank switches interleave with the
\* deletion of a custom bank and its delayed state update.
C33_ActiveBankAvailable ==
    del.pc # "timer" => activeBank \in SeqToSet(availableBanks)

----------------------------------------------------------------------------
(* A further claim about the neighbor graph, checked under SpecGraph *)

\* C34: no node of the graph lists a neighbor twice: the connections of
\* every node are pairwise distinct, rows with equal similarities included.
C34_ConnectionsDistinct ==
    viz.pc = "built" =>
        \A id \in DOMAIN viz.nodes :
            \A k, l \in DOMAIN viz.nodes[id].connections :
                k # l => viz.nodes[id].connections[k] # viz.nodes[id].connections[l]

----------------------------------------------------------------------------
(* Repair of an interrupted synchronization, checked under Spec *)

\* run c deleted the records of bank b and ended, by failure or by
\* cancellation, before it had inserted every entry
InterruptedOn(c, b) ==
    /\ <<c, b>> \in hist.cleared
    /\ IF c = SetupId
       THEN b \in SeqToSet(BuiltInNames) /\ setup.status[b] \in {"failed", "cancelled"}
       ELSE /\ c[2] \in DOMAIN loads
            /\ loads[c[2]].bank = b
            /\ loads[c[2]].pc \in {"failed", "returned"}

\* loadBank run k is the next synchronization of its bank after a run that
\* was interrupted
RepairsAfter(k, c) ==
    /\ InterruptedOn(c, loads[k].bank)
    /\ c = SetupId \/ c[2] < k
    /\ \A k1 \in DOMAIN loads :
          (k1 < k /\ loads[k1].bank = loads[k].bank) => (c # SetupId /\ k1 <= c[2])

----------------------------------------------------------------------------
(* The outcome of the loads of a session, checked under Spec *)

\* the App is on screen, every loadBank run started so far has ended, none of
\* them by a failure, and no custom bank is being or has been deleted
LoadsFinished ==
    /\ mounted
    /\ loads # <<>>
    /\ \A k \in DOMAIN loads : loads[k].pc \in {"done", "returned"}
    /\ del.pc = "idle"
    /\ hist.deleted = {}

\* C36: however bank switches interleave, once every load has finished
\* without failure the active bank has one record per entry of its content,
\* in content order, and the ready embedding list has that length.
C36_LoadsConverge ==
    LoadsFinished =>
        LET content == CurrentBankContent(activeBank, customBankData)
        IN  /\ TextsOf(RecordsOfBank(records, activeBank)) = content
            /\ memoryBankEmbeddings # <<>>
            /\ Len(memoryBankEmbeddings[1]) = Len(content)

----------------------------------------------------------------------------
(* Creating a custom bank beside one that is listed: the names of the       *)
(* available banks.  src/src/App.tsx, lines 31-40, 451-453, 543-548         *)

\* the names typed: those of NameInputs, the listed custom name in lower
\* case, and a name no bank has
NamesTyped == NameInputs \cup {"mine", "Other"}

\* the App after a startup that found the built-in banks cached and the
\* custom bank of an earlier session: the bank is listed, General is active
\* and loaded, the modal is open and filled in
NamesInit ==
    /\ dbPromise = 1
    /\ openStatus = <<"success">>
    /\ customBanks = StoredCustomBanks
    /\ records = StoredFrom(Tagged("General", memoryBanks("General"))
                              \o Tagged("Science", memoryBanks("Science"))
                              \o Tagged(CustomName, customBanks[CustomName]), 1)
    /\ nextId = Len(records) + 1
    /\ op = [c \in SaveCallers |-> IdleOp]
    /\ txq = <<>>
    /\ faults = 0
    /\ mounted = TRUE
    /\ isAppLoading = FALSE
    /\ activeBank = "General"
    /\ availableBanks = BuiltInNames \o CustomBankKeys(customBanks)
    /\ customBankData = customBanks
    /\ memoryBankEmbeddings = <<Embeddings(RecordsOfBank(records, "General"))>>
    /\ bankToDelete = ""
    /\ setup = [pc |-> "done", i |-> Len(BuiltInNames) + 1, j |-> 0,
                cancelled |-> FALSE, names |-> CustomBankKeys(customBanks),
                customData |-> customBanks,
                fresh |-> SeqToSet(BuiltInNames), oneDiff |-> {},
                status |-> [b \in SeqToSet(BuiltInNames) |-> "ok"]]
    /\ loads = <<[bank |-> "General", content |-> memoryBanks("General"),
                  pc |-> "done", j |-> 0, cancelled |-> FALSE, stale |-> "fresh",
                  plan |-> "reuse"]>>
    /\ del = IdleDelete
    /\ wlog = {}
    /\ \E name \in NamesTyped, text \in {FactLines(n) : n \in 0..MaxLines} :
          /\ modal = [isOpen |-> TRUE, bankName |-> name, inputText |-> text,
                      error |-> "", isSaving |-> FALSE]
          /\ hist = [published |-> {1}, deleted |-> {}, nextId0 |-> nextId,
                     input |-> [name |-> name, text |-> text]]
    /\ save = IdleSave
    /\ ProviderOff
    /\ VizOff
    /\ SearchOff
    /\ SchemaOff

SpecNames == NamesInit /\ [][SaveNext]_vars

====
